---------------------------- MODULE Spec2Model ----------------------------
(***************************************************************************)
(* Engine-cache utilities of the NV TensorRT RTX execution provider        *)
(* (nv_execution_provider_utils.h): the shape-profile codec                *)
(* (SerializeProfileV2 / DeserializeProfileV2 / DeserializeProfile), the   *)
(* profile compatibility check (CompareProfiles, GetNumProfiles), the      *)
(* validation of requested profile shapes (ValidateProfileShapes), and a   *)
(* SerializeProfileV2 call running beside a CompareProfiles call on one    *)
(* file.                                                                   *)
(*                                                                         *)
(* A std::unordered_map is a function whose domain is its key set; its     *)
(* iteration order is unspecified, so every loop over one takes the order  *)
(* as a parameter and the actions quantify over all orders.  A std::vector *)
(* is a sequence (index i of the code is index i+1 here).  The flexbuffer  *)
(* written to disk is its root reference [type, map, elems]; a file is the *)
(* finished buffer together with the number of its bytes that are on disk. *)
(***************************************************************************)
EXTENDS Integers, Sequences, FiniteSets, TLC

\* ------------------------------------------------------------------ bounds
\* dimension indices are 0..MaxDim
MaxDim == 1
\* at most MaxProfiles profiles per (tensor, dimension) and per requested tensor
MaxProfiles == 2
\* extents (min/max/opt values) are 1..MaxExtent
MaxExtent == 2
\* requested flattened shape vectors have 0..MaxRank entries
MaxRank == 1
\* bytes per block a stream writes to its file
WriteBlock == 8

\* 2^64 - 1, the largest size_t, stands as TLC's largest integer
SizeMax == 2147483647

\* tensor names of cache files; requests may name one tensor more
Names == {"a", "b"}
RequestNames == Names \cup {"c"}
Dims == 0..MaxDim
Extents == 1..MaxExtent

VARIABLES
    file,                \* the cache entry at file_name
    shape_ranges,        \* the profile set handed to SerializeProfileV2
    decoded,             \* what the last Deserialize call returned
    profile_min_shapes,  \* requested shapes: name -> profiles -> extents
    profile_max_shapes,
    profile_opt_shapes,
    ret,                 \* "none" | "true" | "false" | "crash": the last bool returned
    oob,                 \* TRUE once a read went outside its vector or buffer
    parsed,              \* TRUE once flexbuffers::GetRoot ran on the file's bytes
    observed,            \* the file as the last CompareProfiles call read it
    writer,              \* where a concurrent SerializeProfileV2 call stands
    pc,                  \* the operation that ran last, or where the reader stands
    graph_viewer,        \* the graph TRTGenerateId is handed
    trt_version,         \* its version strings
    cuda_version,
    build,               \* the macros the translation unit was compiled with
    hash,                \* uint32_t hash[4] as the last TRTGenerateId call left it
    calls,               \* the TRTGenerateId calls so far: arguments and returned id
    cache_path,          \* the cache directory's path, a string of characters
    cache_dir,           \* what the file system holds at cache_path
    dir_before,          \* cache_dir as the last directory call found it
    file_extension,      \* the extension asked for
    cache_files,         \* the vector GetCachesByType returned last
    timing_caches,       \* path -> compute capability of the timing data stored there
    timing_lookup,       \* the last look-up of a timing cache: for whom, where, what
    fused_node_name,     \* the arguments of GetCacheSuffix
    trt_node_name_with_precision,
    suffix,              \* the string GetCacheSuffix returned last
    profile_shapes_string,  \* the option string handed to ParseProfileShapes
    option_entries,      \* the name:shape entries it was written from, if it was
    parsed_shapes,       \* the map profile_shapes that ParseProfileShapes fills
    graph_exec_mutex_,   \* the thread that holds the mutex of the QnnModel, 0 for none
    thread_pc,           \* thread -> where it stands in ExecuteGraph
    execute_status,      \* thread -> its local execute_status
    status,              \* thread -> the Status its last ExecuteGraph call returned
    runs                 \* thread -> the ExecuteGraph calls it has made

idVars == <<graph_viewer, trt_version, cuda_version, build, hash, calls>>

\* the state of the utilities that do not touch profile files
dirVars == <<cache_path, cache_dir, dir_before, file_extension, cache_files>>

timingVars == <<timing_caches, timing_lookup>>

suffixVars == <<fused_node_name, trt_node_name_with_precision, suffix>>

parseVars == <<profile_shapes_string, option_entries, parsed_shapes>>

\* QnnModel::ExecuteGraph on one model, per calling thread
qnnVars == <<graph_exec_mutex_, thread_pc, execute_status, status, runs>>

util == <<idVars, dirVars, timingVars, suffixVars, parseVars, qnnVars>>

vars == <<file, shape_ranges, decoded, profile_min_shapes, profile_max_shapes,
          profile_opt_shapes, ret, oob, parsed, observed, writer, pc, util>>

requested == <<profile_min_shapes, profile_max_shapes, profile_opt_shapes>>

\* ------------------------------------------------------- containers
\* the empty unordered_map / vector
Empty == <<>>

\* every iteration order of a container with key set S
Orders(S) == {s \in [1..Cardinality(S) -> S] :
                 \A i, j \in 1..Cardinality(S) : i # j => s[i] # s[j]}

\* the keys of m in the order a loop `for (it = m.begin(); it != m.end(); it++)`
\* visits them, when `order` lists every possible key in hash-table order
IterKeys(m, order) == SelectSeq(order, LAMBDA k : k \in DOMAIN m)

\* m[k] = v of std::unordered_map: insert or overwrite
Put(m, k, v) == [x \in DOMAIN m \cup {k} |-> IF x = k THEN v ELSE m[x]]

\* ------------------------------------------------------- flexbuffers
\* a flexbuffers::Reference: the root of a buffer or one value of a map
FlexMap(m) == [type |-> "map", map |-> m, elems |-> Empty]
FlexVector(s) == [type |-> "vector_int", map |-> Empty, elems |-> s]
FlexInt(i) == [type |-> "int", map |-> Empty, elems |-> <<i>>]

\* Reference::AsMap(): the map, or the empty map when the reference is none
AsMap(ref) == IF ref.type = "map" THEN ref.map ELSE Empty

\* Reference::AsTypedVector(): the vector, or the empty one
AsTypedVector(ref) == IF ref.type = "vector_int" THEN ref.elems ELSE Empty

NoFile == [exists |-> FALSE, root |-> FlexMap(Empty), len |-> 0]

RECURSIVE SumOver(_, _)
SumOver(S, f) ==
    IF S = {} THEN 0
    ELSE LET k == CHOOSE x \in S : TRUE IN f[k] + SumOver(S \ {k}, f)

\* builder.GetSize() of a finished buffer whose values and offsets all fit one
\* byte.  A map of typed vectors: per tensor the key with its terminator, the
\* length byte and the elements; the key vector (length, offsets); the value
\* vector (key offset, key width, length, offsets, types); the root (offset,
\* type, width).  A lone vector: length, elements, root.  A scalar: the root.
FlexSize(ref) ==
    LET m == AsMap(ref)
        k == Cardinality(DOMAIN m)
    IN  CASE ref.type = "map" ->
                SumOver(DOMAIN m,
                        [t \in DOMAIN m |-> Len(t) + 2 + Len(AsTypedVector(m[t]))])
                  + (1 + k) + (3 + 2 * k) + 3
          [] ref.type = "vector_int" -> 1 + Len(ref.elems) + 3
          [] OTHER -> 3

\* the file after one complete write of the buffer
WholeFile(ref) == [exists |-> TRUE, root |-> ref, len |-> FlexSize(ref)]

\* ------------------------------------------------------- SerializeProfileV2
\* lines 166-173: one (dim, min, max, opt) per profile of a dimension
RECURSIVE EmitProfiles(_, _, _)
EmitProfiles(dim, profiles, i) ==
    IF i > Len(profiles) THEN <<>>
    ELSE <<dim, profiles[i][1], profiles[i][2], profiles[i][3]>>
           \o EmitProfiles(dim, profiles, i + 1)

\* lines 164-174: the dimensions of one tensor, in iteration order
RECURSIVE EmitDims(_, _)
EmitDims(inner_map, dims) ==
    IF dims = <<>> THEN <<>>
    ELSE EmitProfiles(Head(dims), inner_map[Head(dims)], 1)
           \o EmitDims(inner_map, Tail(dims))

\* lines 159-178: the finished buffer, a map from tensor name to typed vector
BuildProfileV2(ranges, dim_order) ==
    FlexMap([t \in DOMAIN ranges |->
                FlexVector(EmitDims(ranges[t], IterKeys(ranges[t], dim_order)))])

\* ------------------------------------------------------- DeserializeProfileV2
\* ReadGroupsV2 with the group assigned to the dimension instead of appended
RECURSIVE ReadGroupsV2_Overwrite(_, _, _)
ReadGroupsV2_Overwrite(dim_range_vector, k, inner_map) ==
    IF k >= Len(dim_range_vector) \div 4 THEN inner_map
    ELSE LET idx == 4 * k
             dim == dim_range_vector[idx + 1]
             shape_vector == <<dim_range_vector[idx + 2],
                               dim_range_vector[idx + 3],
                               dim_range_vector[idx + 4]>>
         IN  ReadGroupsV2_Overwrite(dim_range_vector, k + 1,
                                    Put(inner_map, dim, <<shape_vector>>))

\* lines 257-270: groups of four values, appended to the dimension's profiles
RECURSIVE ReadGroupsV2(_, _, _)
ReadGroupsV2(dim_range_vector, k, inner_map) ==
    IF k >= Len(dim_range_vector) \div 4 THEN inner_map
    ELSE LET idx == 4 * k
             dim == dim_range_vector[idx + 1]
             shape_vector == <<dim_range_vector[idx + 2],
                               dim_range_vector[idx + 3],
                               dim_range_vector[idx + 4]>>
             found == IF dim \in DOMAIN inner_map THEN inner_map[dim] ELSE <<>>
         IN  ReadGroupsV2(dim_range_vector, k + 1,
                          Put(inner_map, dim, Append(found, shape_vector)))

\* lines 247-273 on a complete buffer
ParseProfileV2(root) ==
    LET tensors_range_entries == AsMap(root)
    IN  [t \in DOMAIN tensors_range_entries |->
            ReadGroupsV2(AsTypedVector(tensors_range_entries[t]), 0, Empty)]

\* ------------------------------------------------------- SerializeProfile
\* lines 61-65: (dim, min, max) of every dimension, in iteration order
RECURSIVE EmitPairs(_, _)
EmitPairs(inner_map, dims) ==
    IF dims = <<>> THEN <<>>
    ELSE <<Head(dims), inner_map[Head(dims)][1], inner_map[Head(dims)][2]>>
           \o EmitPairs(inner_map, Tail(dims))

\* lines 57-69: the finished buffer, a map from tensor name to typed vector
BuildProfile(ranges, dim_order) ==
    FlexMap([t \in DOMAIN ranges |->
                FlexVector(EmitPairs(ranges[t], IterKeys(ranges[t], dim_order)))])

\* ------------------------------------------------------- DeserializeProfile
\* ReadGroupsV1 with the first group of a dimension kept (insert instead of
\* operator[])
RECURSIVE ReadGroupsV1_KeepFirst(_, _, _)
ReadGroupsV1_KeepFirst(dim_range_vectors, j, inner_map) ==
    IF j >= Len(dim_range_vectors) \div 3 THEN inner_map
    ELSE LET idx == 3 * j
             dim == dim_range_vectors[idx + 1]
         IN  ReadGroupsV1_KeepFirst(dim_range_vectors, j + 1,
                 IF dim \in DOMAIN inner_map THEN inner_map
                 ELSE Put(inner_map, dim,
                          <<dim_range_vectors[idx + 2], dim_range_vectors[idx + 3]>>))

\* lines 98-101: groups of three values, a later group of a dimension
\* overwriting an earlier one
RECURSIVE ReadGroupsV1(_, _, _)
ReadGroupsV1(dim_range_vectors, j, inner_map) ==
    IF j >= Len(dim_range_vectors) \div 3 THEN inner_map
    ELSE LET idx == 3 * j
         IN  ReadGroupsV1(dim_range_vectors, j + 1,
                          Put(inner_map, dim_range_vectors[idx + 1],
                              <<dim_range_vectors[idx + 2], dim_range_vectors[idx + 3]>>))

\* lines 91-104 on a complete buffer
ParseProfile(root) ==
    LET tensors_range_entries == AsMap(root)
    IN  [t \in DOMAIN tensors_range_entries |->
            ReadGroupsV1(AsTypedVector(tensors_range_entries[t]), 0, Empty)]

\* ------------------------------------------------------- GetNumProfiles
\* lines 35-42: the size of the first entry, in iteration order, that holds a
\* profile; 0 when none does
RECURSIVE GetNumProfilesFrom(_, _)
GetNumProfilesFrom(profile_shapes, keys) ==
    IF keys = <<>> THEN 0
    ELSE IF Len(profile_shapes[Head(keys)]) > 0
         THEN Len(profile_shapes[Head(keys)])
         ELSE GetNumProfilesFrom(profile_shapes, Tail(keys))

GetNumProfiles(profile_shapes, order) ==
    GetNumProfilesFrom(profile_shapes, IterKeys(profile_shapes, order))

\* ------------------------------------------------------- ValidateProfileShapes
\* ValidateProfileShapes with the profile count of a key compared with the
\* sizes of the max and opt maps (the subscript [input_name] forgotten)
ValidateProfileShapes_MapSize(min_shapes, max_shapes, opt_shapes) ==
    IF min_shapes = Empty /\ max_shapes = Empty /\ opt_shapes = Empty THEN TRUE
    ELSE IF /\ Cardinality(DOMAIN min_shapes) # Cardinality(DOMAIN max_shapes)
            /\ Cardinality(DOMAIN min_shapes) # Cardinality(DOMAIN opt_shapes)
            /\ Cardinality(DOMAIN max_shapes) # Cardinality(DOMAIN opt_shapes)
         THEN FALSE
    ELSE \A input_name \in DOMAIN min_shapes :
            /\ ~(input_name \notin DOMAIN max_shapes \/ input_name \notin DOMAIN opt_shapes)
            /\ ~(\/ Len(min_shapes[input_name]) # Cardinality(DOMAIN max_shapes)
                 \/ Len(min_shapes[input_name]) # Cardinality(DOMAIN opt_shapes))

\* lines 524-552
ValidateProfileShapes(min_shapes, max_shapes, opt_shapes) ==
    IF min_shapes = Empty /\ max_shapes = Empty /\ opt_shapes = Empty THEN TRUE
    ELSE IF /\ Cardinality(DOMAIN min_shapes) # Cardinality(DOMAIN max_shapes)
            /\ Cardinality(DOMAIN min_shapes) # Cardinality(DOMAIN opt_shapes)
            /\ Cardinality(DOMAIN max_shapes) # Cardinality(DOMAIN opt_shapes)
         THEN FALSE
    ELSE \A input_name \in DOMAIN min_shapes :
            /\ ~(input_name \notin DOMAIN max_shapes \/ input_name \notin DOMAIN opt_shapes)
            /\ ~(\/ Len(min_shapes[input_name]) # Len(max_shapes[input_name])
                 \/ Len(min_shapes[input_name]) # Len(opt_shapes[input_name]))

\* ------------------------------------------------------- CompareProfiles
\* size() - 1 in size_t: 0 - 1 wraps around to the largest value
SizeMinusOne(n) == IF n = 0 THEN SizeMax ELSE n - 1

\* What a read outside a vector or outside the file buffer does is undefined.
\* The outcomes of a build: the process dies ("crash"), or the read yields
\* whatever lies there, which is either unlike the stored value ("differs") or
\* happens to be like it ("equal").
UndefinedReads == {"crash", "differs", "equal"}

\* the running state of one CompareProfiles call: ret is "go" until it returns
Running(max_shapes, opt_shapes) ==
    [ret |-> "go", oob |-> FALSE, parsed |-> FALSE, shape_ranges |-> Empty,
     max |-> max_shapes, opt |-> opt_shapes]

OutOfBounds(st, ub) ==
    [st EXCEPT !.oob = TRUE,
               !.ret = CASE ub = "crash" -> "crash"
                         [] ub = "differs" -> "true"
                         [] OTHER -> "go"]

\* shapes[tensor_name][i][dim] lies inside its vectors (i counted from 1)
InBounds(shapes, tensor_name, i, dim) ==
    /\ tensor_name \in DOMAIN shapes
    /\ i <= Len(shapes[tensor_name])
    /\ dim + 1 <= Len(shapes[tensor_name][i])

\* `if (shapes[tensor_name][i][dim] != value) return true;` lines 347, 354, 361
CompareValue(st, shapes, tensor_name, i, dim, value, ub) ==
    IF InBounds(shapes, tensor_name, i, dim)
    THEN IF shapes[tensor_name][i][dim + 1] # value
         THEN [st EXCEPT !.ret = "true"]
         ELSE st
    ELSE OutOfBounds(st, ub)

\* operator[] of std::unordered_map inserts an empty value for a missing key
Subscript(shapes, tensor_name) ==
    IF tensor_name \in DOMAIN shapes THEN shapes ELSE Put(shapes, tensor_name, <<>>)

\* lines 339-364: profile i of one stored dimension
CompareProfile(st, min_shapes, tensor_name, dim, i, shape_values, ub) ==
    LET s1 == IF i > Len(min_shapes[tensor_name])
              THEN OutOfBounds(st, ub)
              ELSE IF dim > SizeMinusOne(Len(min_shapes[tensor_name][i]))
                   THEN [st EXCEPT !.ret = "true"]
                   ELSE CompareValue(st, min_shapes, tensor_name, i, dim,
                                     shape_values[1], ub)
        m2 == [s1 EXCEPT !.max = Subscript(s1.max, tensor_name)]
        s2 == IF s1.ret # "go" THEN s1
              ELSE CompareValue(m2, m2.max, tensor_name, i, dim, shape_values[2], ub)
        m3 == [s2 EXCEPT !.opt = Subscript(s2.opt, tensor_name)]
    IN  IF s2.ret # "go" THEN s2
        ELSE CompareValue(m3, m3.opt, tensor_name, i, dim, shape_values[3], ub)

\* lines 338-365: the profiles of one stored dimension
RECURSIVE CompareDim(_, _, _, _, _, _, _)
CompareDim(st, min_shapes, tensor_name, dim, profiles, i, ub) ==
    IF st.ret # "go" \/ i > Len(profiles) THEN st
    ELSE CompareDim(CompareProfile(st, min_shapes, tensor_name, dim, i, profiles[i], ub),
                    min_shapes, tensor_name, dim, profiles, i + 1, ub)

\* lines 329-366: the stored dimensions of one tensor
RECURSIVE CompareDims(_, _, _, _, _, _, _)
CompareDims(st, min_shapes, tensor_name, inner_map, dims, num_profiles, ub) ==
    IF st.ret # "go" \/ dims = <<>> THEN st
    ELSE IF Len(inner_map[Head(dims)]) # num_profiles
         THEN [st EXCEPT !.ret = "true"]
         ELSE CompareDims(CompareDim(st, min_shapes, tensor_name, Head(dims),
                                     inner_map[Head(dims)], 1, ub),
                          min_shapes, tensor_name, inner_map, Tail(dims),
                          num_profiles, ub)

\* lines 322-367: the stored tensors
RECURSIVE CompareTensors(_, _, _, _, _, _)
CompareTensors(st, min_shapes, tensors, dim_order, num_profiles, ub) ==
    IF st.ret # "go" \/ tensors = <<>> THEN st
    ELSE LET tensor_name == Head(tensors)
             inner_map == st.shape_ranges[tensor_name]
         IN  IF tensor_name \notin DOMAIN min_shapes
             THEN [st EXCEPT !.ret = "true"]
             ELSE CompareTensors(
                      CompareDims(st, min_shapes, tensor_name, inner_map,
                                  IterKeys(inner_map, dim_order), num_profiles, ub),
                      min_shapes, Tail(tensors), dim_order, num_profiles, ub)

\* line 292: DeserializeProfileV2 of the bytes that are in the file.  GetRoot
\* takes the width and the type of the root from the last two bytes of what it
\* is given.  Of a file of fewer than two bytes it reads them before the
\* buffer.  Of a longer file that is cut short they are bytes of the payload:
\* a type that is no map decodes to the empty set ("differs"), a map type
\* sends the reader along offsets that are no offsets.
LoadProfileV2(st, f, ub) ==
    IF f.len = FlexSize(f.root)
    THEN [st EXCEPT !.parsed = TRUE, !.shape_ranges = ParseProfileV2(f.root)]
    ELSE [st EXCEPT !.parsed = TRUE,
                    !.oob = (f.len < 2 \/ ub # "differs"),
                    !.ret = IF ub = "crash" THEN "crash" ELSE "go",
                    !.shape_ranges = IF ub = "equal" THEN ParseProfileV2(f.root)
                                     ELSE Empty]

\* lines 316-368: CompareProfiles after the file was decoded into st, for one
\* iteration order of shape_ranges, one of its inner maps, and one value of
\* GetNumProfiles(profile_min_shapes)
CompareDecoded(st, min_shapes, tensor_order, dim_order, num_profiles, ub) ==
    LET done ==
            IF st.ret # "go" THEN st
            ELSE IF Cardinality(DOMAIN min_shapes) # Cardinality(DOMAIN st.shape_ranges)
                 THEN [st EXCEPT !.ret = "true"]
                 ELSE CompareTensors(st, min_shapes,
                                     IterKeys(st.shape_ranges, tensor_order),
                                     dim_order, num_profiles, ub)
    IN  IF done.ret = "go" THEN [done EXCEPT !.ret = "false"] ELSE done

\* the iteration orders of the maps keyed by a tensor name of the file, by a
\* dimension, by a requested tensor name
NameOrders == Orders(Names)
DimOrders == Orders(Dims)
RequestOrders == Orders(RequestNames)

\* lines 291-368: every outcome of CompareProfiles once the file is open, over
\* the iteration orders and over what an undefined read does
CompareOpened(f, min_shapes, max_shapes, opt_shapes) ==
    UNION {
        LET st == LoadProfileV2(Running(max_shapes, opt_shapes), f, ub)
        IN  {CompareDecoded(st, min_shapes, tensor_order, dim_order, num_profiles, ub) :
                tensor_order \in NameOrders, dim_order \in DimOrders,
                num_profiles \in {GetNumProfiles(min_shapes, min_order) :
                                     min_order \in RequestOrders}} :
        ub \in UndefinedReads}

\* CompareProfiles with `return false` for a file that cannot be opened
CompareProfiles_AbsentIsFresh(f, min_shapes, max_shapes, opt_shapes) ==
    IF ~f.exists
    THEN {[Running(max_shapes, opt_shapes) EXCEPT !.ret = "false"]}
    ELSE CompareOpened(f, min_shapes, max_shapes, opt_shapes)

\* lines 281-369: every outcome of one call
CompareProfiles(f, min_shapes, max_shapes, opt_shapes) ==
    IF ~f.exists
    THEN {[Running(max_shapes, opt_shapes) EXCEPT !.ret = "true"]}
    ELSE CompareOpened(f, min_shapes, max_shapes, opt_shapes)

\* ------------------------------------------------------- input domains
\* at most MaxFlat values in a typed vector of a foreign or damaged file
MaxFlat == 5

SeqsUpTo(S, n) == UNION {[1..k -> S] : k \in 0..n}

\* (min, max, opt) of one profile, with min <= opt <= max
Triples == {t \in [1..3 -> Extents] : t[1] <= t[3] /\ t[3] <= t[2]}

\* dimension -> profiles of one tensor, n profiles per dimension
DimensionProfiles(n) == UNION {[D -> [1..n -> Triples]] : D \in SUBSET Dims}

\* every (tensor, dimension) holds the same number >= 1 of triples
WellFormed(x) ==
    \E n \in 1..MaxProfiles :
        \A t \in DOMAIN x : \A d \in DOMAIN x[t] : Len(x[t][d]) = n

\* tensor name -> dimension -> profiles, one profile count for the whole set
ShapeProfileSets ==
    UNION {[K -> DimensionProfiles(n)] : K \in SUBSET Names, n \in 1..MaxProfiles}

\* files no SerializeProfileV2 call wrote: any root, any vector length
RawValues == {FlexVector(s) : s \in SeqsUpTo(Dims, MaxFlat)} \cup {FlexInt(1)}
RawRoots ==
    {FlexMap(m) : m \in UNION {[K -> RawValues] : K \in SUBSET Names}}
      \cup {FlexInt(1), FlexVector(<<0, 1, 1, 1>>)}

\* ------------------------------------------------------- TRTGenerateId
\* line 466
hash_string_length == 500

\* the release string the build was configured with
ORT_VERSION == "1.23.0"

\* line 454 with the graph of the viewer itself taken as the main graph
TopLevelGraph_Self(cur_graph) == cur_graph

\* lines 449-454: the graph without a parent, reached over ParentGraph()
RECURSIVE TopLevelGraph(_)
TopLevelGraph(cur_graph) ==
    IF cur_graph.is_subgraph THEN TopLevelGraph(cur_graph.parent_graph) ELSE cur_graph

\* n copies of s, one after the other
RECURSIVE Repeated(_, _)
Repeated(s, n) ==
    IF n = 0 THEN ""
    ELSE IF n % 2 = 0 THEN LET half == Repeated(s, n \div 2) IN half \o half
    ELSE s \o Repeated(s, n - 1)

\* the loop of lines 468-470 running while i <= hash_string_length
AppendCount_UpTo(model_name_length) ==
    LET i(k) == model_name_length + k * model_name_length
        Runs(k) == i(k) > 0 /\ i(k) <= hash_string_length
    IN  CHOOSE k \in 0..hash_string_length :
            ~Runs(k) /\ \A j \in 0..(k - 1) : Runs(j)

\* lines 468-470: how often the loop appends model_name: i starts at the
\* length and grows by it, the loop runs while i > 0 && i < 500
AppendCount(model_name_length) ==
    LET i(k) == model_name_length + k * model_name_length
        Runs(k) == i(k) > 0 /\ i(k) < hash_string_length
    IN  CHOOSE k \in 0..hash_string_length :
            ~Runs(k) /\ \A j \in 0..(k - 1) : Runs(j)

\* lines 461-476: what the model's path contributes
ModelNameTokens(main_graph) ==
    IF main_graph.model_path.filename # ""
    THEN LET model_name == main_graph.model_path.filename
         IN  <<model_name \o Repeated(model_name, AppendCount(Len(model_name)))>>
    ELSE <<>>

\* lines 479-481: the names of the inputs, initializers included
RECURSIVE InputTokens(_)
InputTokens(inputs) ==
    IF inputs = <<>> THEN <<>>
    ELSE <<Head(inputs).name>> \o InputTokens(Tail(inputs))

\* lines 490-494: the names of the outputs of one node that exist
RECURSIVE OutputDefTokens(_)
OutputDefTokens(output_defs) ==
    IF output_defs = <<>> THEN <<>>
    ELSE (IF Head(output_defs).exists THEN <<Head(output_defs).name>> ELSE <<>>)
           \o OutputDefTokens(Tail(output_defs))

\* lines 484-495: the nodes in topological order
RECURSIVE NodeTokens(_, _)
NodeTokens(nodes, node_index) ==
    IF node_index = <<>> THEN <<>>
    ELSE OutputDefTokens(nodes[Head(node_index)])
           \o NodeTokens(nodes, Tail(node_index))

\* lines 497-513: what the build and the versions contribute
EnvironmentTokens(b, trt, cuda) ==
    (CASE b.os = "linux" -> <<"LINUX">>
       [] b.os = "win32" -> <<"WINDOWS">>
       [] OTHER -> <<>>)
      \o (IF b.ort_version THEN <<ORT_VERSION>> ELSE <<>>)
      \o (IF b.cuda_version THEN <<cuda>> ELSE <<>>)
      \o (IF b.tensorrt_version THEN <<trt>> ELSE <<>>)

\* TRTGenerateId with the node loop of lines 484-495 before the input loop of
\* lines 479-481
Tokens_NodesFirst(gv, b, trt, cuda) ==
    ModelNameTokens(TopLevelGraph(gv.graph))
      \o NodeTokens(gv.nodes, gv.node_index)
      \o InputTokens(gv.inputs)
      \o EnvironmentTokens(b, trt, cuda)

\* every string TRTGenerateId hands to hash_str, in the order of the calls
Tokens(gv, b, trt, cuda) ==
    ModelNameTokens(TopLevelGraph(gv.graph))
      \o InputTokens(gv.inputs)
      \o NodeTokens(gv.nodes, gv.node_index)
      \o EnvironmentTokens(b, trt, cuda)

\* MurmurHash3::x86_128(str, size, seed, out): the four words of the digest of
\* str under seed.  A word is written as what it was computed from: two words
\* are equal exactly when their position, seed and string are; the word 0 is
\* the empty tuple
x86_128(str, seed) == [k \in 1..4 |-> <<k, seed, str>>]

\* line 455 with the array kept between calls (static)
StartHash_Static == hash

\* line 455: uint32_t hash[4] = {0, 0, 0, 0}
StartHash == <<<<>>, <<>>, <<>>, <<>>>>

\* lines 457-459: hash[0] is the seed of the call and the array takes its
\* result
hash_str(h, str) == x86_128(str, h[1])

\* the hash_str calls of lines 461-513, one per token
RECURSIVE HashAll(_, _)
HashAll(h, tokens) ==
    IF tokens = <<>> THEN h
    ELSE HashAll(hash_str(h, Head(tokens)), Tail(tokens))

\* ------------------------------------------------------- cache directory
\* A std::string or a file name is the sequence of its characters.
\* fs::path::extension(): from the last dot of the file name to its end;
\* nothing when there is no dot, when the only dot is the first character, or
\* for the names "." and ".."
extension(filename) ==
    LET dots == {i \in DOMAIN filename : filename[i] = "."}
        last == CHOOSE i \in dots : \A j \in dots : j <= i
    IN  IF dots = {} \/ filename = <<".">> \/ filename = <<".", ".">> THEN <<>>
        ELSE IF last = 1 THEN <<>>
        ELSE SubSeq(filename, last, Len(filename))

\* fs::path(root).append(name).string(): a separator between the two unless
\* root ends with one; an absolute name replaces root
PathAppend(path, name) ==
    IF name # <<>> /\ Head(name) = "/" THEN name
    ELSE IF path[Len(path)] = "/" THEN path \o name
    ELSE path \o <<"/">> \o name

\* lines 375-383
GetCachePath(path, name) ==
    IF path = <<>> THEN name ELSE PathAppend(path, name)

\* nothing at the path, a regular file, or a directory of entries
Missing == [kind |-> "missing", entries |-> Empty]
RegularFile == [kind |-> "file", entries |-> Empty]
Directory(entries) == [kind |-> "dir", entries |-> entries]

\* GetCachesByType with fs::recursive_directory_iterator: the entries of the
\* subdirectories are listed as well
GetCachesByType_Recursive(d, path, ext) ==
    IF d.kind # "dir" THEN {[ret |-> "throw", names |-> <<>>, cache_files |-> <<>>]}
    ELSE LET nested ==
                 UNION {{PathAppend(PathAppend(path, s), n) :
                            n \in {e \in DOMAIN d.entries[s].entries : extension(e) = ext}} :
                          s \in DOMAIN d.entries}
         IN  {[ret |-> "returned", names |-> names,
               cache_files |-> [i \in DOMAIN names |-> PathAppend(path, names[i])] \o below] :
                 names \in Orders({n \in DOMAIN d.entries : extension(n) = ext}),
                 below \in Orders(nested)}

\* lines 411-419, every outcome: fs::directory_iterator(root) throws
\* filesystem_error unless root is a directory; else the entries whose
\* extension is file_extension, in the order the iterator yields them (any)
GetCachesByType(d, path, ext) ==
    IF d.kind # "dir" THEN {[ret |-> "throw", names |-> <<>>, cache_files |-> <<>>]}
    ELSE {[ret |-> "returned", names |-> names,
           cache_files |-> [i \in DOMAIN names |-> PathAppend(path, names[i])]] :
             names \in Orders({n \in DOMAIN d.entries : extension(n) = ext})}

\* lines 421-427
IsCacheExistedByType(d, path, ext) ==
    {IF r.ret = "throw" THEN r
     ELSE [r EXCEPT !.ret = IF Len(r.cache_files) = 0 THEN "false" ELSE "true"] :
        r \in GetCachesByType(d, path, ext)}

\* fs::remove of each name in turn, lines 431-433: a file or an empty
\* directory goes, a directory that holds entries makes fs::remove throw and
\* ends the loop
RECURSIVE RemoveEach(_, _)
RemoveEach(d, names) ==
    IF names = <<>> THEN [ret |-> "returned", dir |-> d]
    ELSE LET entry == d.entries[Head(names)]
         IN  IF entry.kind = "dir" /\ entry.entries # Empty
             THEN [ret |-> "throw", dir |-> d]
             ELSE RemoveEach(Directory([n \in DOMAIN d.entries \ {Head(names)} |->
                                           d.entries[n]]),
                             Tail(names))

\* lines 429-434, every outcome
RemoveCachesByType(d, path, ext) ==
    {IF r.ret = "throw" THEN [ret |-> "throw", dir |-> d]
     ELSE RemoveEach(d, r.names) : r \in GetCachesByType(d, path, ext)}

\* ------------------------------------------------------- GetTimingCachePath
\* GetTimingCachePath with one name for every GPU
GetTimingCachePath_OneName(path, compute_cap) ==
    GetCachePath(path, <<"N", "v", "E", "x", "e", "c", "u", "t", "i", "o", "n", "P", "r", "o", "v", "i", "d", "e", "r", "_", "c", "a", "c", "h", "e", "_", "s", "m">> \o <<".", "t", "i", "m", "i", "n", "g">>)

\* lines 398-403
GetTimingCachePath(path, compute_cap) ==
    LET timing_cache_name == <<"N", "v", "E", "x", "e", "c", "u", "t", "i", "o", "n", "P", "r", "o", "v", "i", "d", "e", "r", "_", "c", "a", "c", "h", "e", "_", "s", "m">>
                               \o compute_cap \o <<".", "t", "i", "m", "i", "n", "g">>
    IN  GetCachePath(path, timing_cache_name)

\* ------------------------------------------------------- GetCacheSuffix
\* the position of the first delimiter in str, 0 when there is none
FirstOf(str, delimiter) ==
    IF \E i \in DOMAIN str : str[i] = delimiter
    THEN CHOOSE i \in DOMAIN str :
            str[i] = delimiter /\ \A j \in 1..(i - 1) : str[j] # delimiter
    ELSE 0

\* lines 642-650: std::getline takes the characters up to the next delimiter
\* and fails once nothing is left, so a delimiter at the very end yields no
\* empty last token
RECURSIVE split(_, _)
split(str, delimiter) ==
    IF str = <<>> THEN <<>>
    ELSE LET i == FirstOf(str, delimiter)
         IN  IF i = 0 THEN <<str>>
             ELSE <<SubSeq(str, 1, i - 1)>> \o split(SubSeq(str, i + 1, Len(str)), delimiter)

\* lines 652-661
RECURSIVE join(_, _)
join(vec, delimiter) ==
    IF vec = <<>> THEN <<>>
    ELSE IF Len(vec) = 1 THEN vec[1]
    ELSE vec[1] \o delimiter \o join(Tail(vec), delimiter)

\* std::string::find: the index (from 0) of the first occurrence of sub in
\* str, Len(str) + 1 standing for npos
find(str, sub) ==
    LET At(i) == i + Len(sub) <= Len(str) /\ SubSeq(str, i + 1, i + Len(sub)) = sub
    IN  IF \E i \in 0..Len(str) : At(i)
        THEN CHOOSE i \in 0..Len(str) : At(i) /\ \A j \in 0..(i - 1) : ~At(j)
        ELSE Len(str) + 1

\* lines 671-685; std::string::substr(index) throws std::out_of_range when
\* index > size()
GetCacheSuffix(fused, with_precision) ==
    LET split_fused_node_name == split(fused, "_")
    IN  IF Len(split_fused_node_name) >= 3
        THEN LET model_hash == split_fused_node_name[Len(split_fused_node_name) - 2]
                 index == find(fused, model_hash)
             IN  IF index > Len(with_precision)
                 THEN [ret |-> "throw", suffix |-> <<>>]
                 ELSE LET suffix_group ==
                              split(SubSeq(with_precision, index + 1, Len(with_precision)), "_")
                          erased == IF Len(suffix_group) > 2
                                    THEN SubSeq(suffix_group, 1, 2)
                                           \o SubSeq(suffix_group, 4, Len(suffix_group))
                                    ELSE suffix_group
                      IN  [ret |-> "returned", suffix |-> join(erased, <<"_">>)]
        ELSE [ret |-> "returned", suffix |-> <<>>]

\* ------------------------------------------------------- ParseProfileShapes
Digits == <<"0", "1", "2", "3", "4", "5", "6", "7", "8", "9">>
IsDigit(c) == \E i \in DOMAIN Digits : Digits[i] = c

\* the largest int
IntMax == 2147483647

\* line 585, std::stoi(value): the number the leading digits spell;
\* std::invalid_argument when value does not begin with a digit (the strings
\* here hold neither blanks nor signs), std::out_of_range beyond int
RECURSIVE stoi(_, _, _)
stoi(value, i, n) ==
    IF i <= Len(value) /\ IsDigit(value[i])
    THEN LET digit == (CHOOSE k \in DOMAIN Digits : Digits[k] = value[i]) - 1
         IN  IF n > (IntMax - digit) \div 10
             THEN [ret |-> "throw", n |-> 0]
             ELSE stoi(value, i + 1, 10 * n + digit)
    ELSE IF i = 1 THEN [ret |-> "throw", n |-> 0]
    ELSE [ret |-> "returned", n |-> n]

\* lines 584-586: the numbers of the values between the x
RECURSIVE ReadShapes(_)
ReadShapes(values) ==
    IF values = <<>> THEN [ret |-> "returned", shapes |-> <<>>]
    ELSE LET v == stoi(Head(values), 1, 0)
             rest == ReadShapes(Tail(values))
         IN  IF v.ret = "throw" \/ rest.ret = "throw"
             THEN [ret |-> "throw", shapes |-> <<>>]
             ELSE [ret |-> "returned", shapes |-> <<v.n>> \o rest.shapes]

\* lines 566-597: input_name is what stands before the first colon, shape
\* what stands between the first and the second
MakeInputNameShapePair(pair_string) ==
    IF pair_string = <<>> THEN [ret |-> "true", first |-> <<>>, second |-> <<>>]
    ELSE LET fields == split(pair_string, ":")
             input_name == fields[1]
             shape == IF Len(fields) >= 2 THEN fields[2] ELSE <<>>
             read == ReadShapes(split(shape, "x"))
         IN  IF read.ret = "throw" THEN [ret |-> "throw", first |-> <<>>, second |-> <<>>]
             ELSE IF input_name = <<>> \/ read.shapes = <<>>
             THEN [ret |-> "false", first |-> <<>>, second |-> <<>>]
             ELSE [ret |-> "true", first |-> input_name, second |-> read.shapes]

\* ParseEntries with the profile assigned to the name instead of appended
RECURSIVE ParseEntries_Overwrite(_, _)
ParseEntries_Overwrite(entries, shapes) ==
    IF entries = <<>> THEN [ret |-> "true", profile_shapes |-> shapes]
    ELSE LET pair == MakeInputNameShapePair(Head(entries))
         IN  IF pair.ret # "true" THEN [ret |-> pair.ret, profile_shapes |-> shapes]
             ELSE ParseEntries_Overwrite(Tail(entries),
                                         Put(shapes, pair.first, <<pair.second>>))

\* lines 618-637: the loop over the entries between the commas
RECURSIVE ParseEntries(_, _)
ParseEntries(entries, shapes) ==
    IF entries = <<>> THEN [ret |-> "true", profile_shapes |-> shapes]
    ELSE LET pair == MakeInputNameShapePair(Head(entries))
             found == IF pair.first \in DOMAIN shapes THEN shapes[pair.first] ELSE <<>>
         IN  IF pair.ret # "true" THEN [ret |-> pair.ret, profile_shapes |-> shapes]
             ELSE ParseEntries(Tail(entries),
                               Put(shapes, pair.first, Append(found, pair.second)))

\* lines 609-640
ParseProfileShapes(str, shapes) ==
    IF str = <<>> THEN [ret |-> "true", profile_shapes |-> shapes]
    ELSE ParseEntries(split(str, ","), shapes)

\* ------------------------------------------------------- codec operations
IdleRequest ==
    /\ profile_min_shapes = Empty
    /\ profile_max_shapes = Empty
    /\ profile_opt_shapes = Empty

\* no operation has run yet
NothingRun ==
    /\ ret = "none"
    /\ oob = FALSE
    /\ parsed = FALSE
    /\ observed = NoFile
    /\ writer = "idle"
    /\ pc = "init"

\* every part of the state outside the families named in active is as it is
\* before anything ran
IdleBut(active) ==
    /\ "profiles" \in active \/
          (file = NoFile /\ shape_ranges = Empty /\ decoded = Empty /\ IdleRequest /\ NothingRun)
    /\ "id" \in active \/
          /\ graph_viewer = Empty
          /\ trt_version = ""
          /\ cuda_version = ""
          /\ build = Empty
          /\ hash = <<<<>>, <<>>, <<>>, <<>>>>
          /\ calls = <<>>
    /\ "dir" \in active \/
          /\ cache_path = <<>>
          /\ cache_dir = Missing
          /\ dir_before = Missing
          /\ file_extension = <<>>
          /\ cache_files = <<>>
    /\ "timing" \in active \/ (timing_caches = Empty /\ timing_lookup = Empty)
    /\ "suffix" \in active \/
          (fused_node_name = <<>> /\ trt_node_name_with_precision = <<>> /\ suffix = <<>>)
    /\ "parse" \in active \/
          (profile_shapes_string = <<>> /\ option_entries = <<>> /\ parsed_shapes = Empty)
    /\ "qnn" \in active \/
          /\ graph_exec_mutex_ = 0
          /\ thread_pc = <<>>
          /\ execute_status = <<>>
          /\ status = <<>>
          /\ runs = <<>>

\* SerializeProfileV2(file_name, shape_ranges), lines 156-186
SerializeProfileV2 ==
    /\ pc = "init"
    /\ ~file.exists
    /\ \E dim_order \in Orders(Dims) :
          file' = WholeFile(BuildProfileV2(shape_ranges, dim_order))
    /\ pc' = "SerializeProfileV2"
    /\ UNCHANGED <<util, shape_ranges, decoded, requested, ret, oob, parsed, observed, writer>>

\* DeserializeProfileV2(infile) on an open, complete file, lines 236-274
DeserializeProfileV2 ==
    /\ pc \in {"init", "SerializeProfileV2"}
    /\ file.exists
    /\ decoded' = ParseProfileV2(file.root)
    /\ parsed' = TRUE
    /\ pc' = "DeserializeProfileV2"
    /\ UNCHANGED <<util, file, shape_ranges, requested, ret, oob, observed, writer>>

\* DeserializeProfile(infile) on an open, complete file, lines 81-105
DeserializeProfile ==
    /\ pc \in {"init", "SerializeProfileV2", "SerializeProfile"}
    /\ file.exists
    /\ decoded' = ParseProfile(file.root)
    /\ parsed' = TRUE
    /\ pc' = "DeserializeProfile"
    /\ UNCHANGED <<util, file, shape_ranges, requested, ret, oob, observed, writer>>

InitCodec ==
    /\ IdleBut({"profiles"})
    /\ \/ file = NoFile /\ shape_ranges \in ShapeProfileSets
       \/ file \in {WholeFile(r) : r \in RawRoots} /\ shape_ranges = Empty
    /\ decoded = Empty
    /\ IdleRequest
    /\ NothingRun

NextCodec == SerializeProfileV2 \/ DeserializeProfileV2 \/ DeserializeProfile

SpecCodec == InitCodec /\ [][NextCodec]_vars

\* ------------------------------------------------------- legacy format
\* at most MaxGroups (dim, min, max) groups in a typed vector of a legacy file
MaxGroups == 2

\* (min, max) of one dimension, with min <= max
Pairs == {p \in [1..2 -> Extents] : p[1] <= p[2]}

\* tensor name -> dimension -> (min, max): what SerializeProfile is handed
LegacyProfileSets ==
    UNION {[K -> UNION {[D -> Pairs] : D \in SUBSET Dims}] : K \in SUBSET Names}

\* one (dim, min, max) group of a legacy file
LegacyGroups == {<<d, p[1], p[2]>> : d \in Dims, p \in Pairs}

RECURSIVE Flatten(_)
Flatten(groups) ==
    IF groups = <<>> THEN <<>> ELSE Head(groups) \o Flatten(Tail(groups))

\* files in the legacy format that some earlier build wrote: whole groups,
\* and in the vector of tensor a a dimension may come more than once
LegacyRoots ==
    LET LegacyVectors(n) == {FlexVector(Flatten(g)) : g \in SeqsUpTo(LegacyGroups, n)}
    IN
    {FlexMap(m) :
        m \in UNION {IF "a" \in K
                     THEN {[t \in K |-> IF t = "a" THEN va ELSE vb[t]] :
                              va \in LegacyVectors(MaxGroups),
                              vb \in [K \ {"a"} -> LegacyVectors(1)]}
                     ELSE [K -> LegacyVectors(1)] :
                        K \in SUBSET Names}}

\* SerializeProfile(file_name, shape_ranges), lines 55-77
SerializeProfile ==
    /\ pc = "init"
    /\ ~file.exists
    /\ \E dim_order \in Orders(Dims) :
          file' = WholeFile(BuildProfile(shape_ranges, dim_order))
    /\ pc' = "SerializeProfile"
    /\ UNCHANGED <<util, shape_ranges, decoded, requested, ret, oob, parsed, observed, writer>>

InitLegacy ==
    /\ IdleBut({"profiles"})
    /\ \/ file = NoFile /\ shape_ranges \in LegacyProfileSets
       \/ file \in {WholeFile(r) : r \in LegacyRoots} /\ shape_ranges = Empty
    /\ decoded = Empty
    /\ IdleRequest
    /\ NothingRun

NextLegacy == SerializeProfile \/ DeserializeProfile

SpecLegacy == InitLegacy /\ [][NextLegacy]_vars

\* ------------------------------------------------------- requested shapes
\* flattened shape vectors of a request
ShapeVectors == SeqsUpTo(Extents, MaxRank)
FullShapeVectors == [1..MaxRank -> Extents]

\* the number of profiles a map holds over all its tensors
RECURSIVE TotalProfiles(_)
TotalProfiles(shapes) ==
    IF DOMAIN shapes = {} THEN 0
    ELSE LET t == CHOOSE x \in DOMAIN shapes : TRUE
         IN  Len(shapes[t]) + TotalProfiles([x \in DOMAIN shapes \ {t} |-> shapes[x]])

\* any map tensor name -> profiles -> extents
AnyShapes ==
    UNION {[K -> SeqsUpTo(FullShapeVectors, MaxProfiles)] : K \in SUBSET Names}

\* the spec's well-formed request: one key set, one profile count per key
WellFormedRequest(min_shapes, max_shapes, opt_shapes) ==
    /\ DOMAIN min_shapes = DOMAIN max_shapes
    /\ DOMAIN min_shapes = DOMAIN opt_shapes
    /\ \A t \in DOMAIN min_shapes :
          /\ Len(min_shapes[t]) = Len(max_shapes[t])
          /\ Len(min_shapes[t]) = Len(opt_shapes[t])

IdleCodec ==
    /\ shape_ranges = Empty
    /\ decoded = Empty

\* ------------------------------------------------------- validation
\* ValidateProfileShapes(profile_min_shapes, profile_max_shapes, profile_opt_shapes)
DoValidateProfileShapes ==
    /\ pc = "init"
    /\ ret' = IF ValidateProfileShapes(profile_min_shapes, profile_max_shapes,
                                       profile_opt_shapes)
              THEN "true" ELSE "false"
    /\ pc' = "ValidateProfileShapes"
    /\ UNCHANGED <<util, file, shape_ranges, decoded, requested, oob, parsed, observed, writer>>

\* any three maps: key sets and profile counts are free
InitValidate ==
    /\ IdleBut({"profiles"})
    /\ profile_min_shapes \in AnyShapes
    /\ profile_max_shapes \in AnyShapes
    /\ profile_opt_shapes \in AnyShapes
    /\ file = NoFile
    /\ IdleCodec
    /\ NothingRun

NextValidate == DoValidateProfileShapes

SpecValidate == InitValidate /\ [][NextValidate]_vars

\* ------------------------------------------------------- comparison
\* CompareProfiles(file_name, profile_min_shapes, profile_max_shapes,
\* profile_opt_shapes), lines 281-369, with nothing else touching the file
DoCompareProfiles ==
    /\ pc = "init"
    /\ \E r \in CompareProfiles(file, profile_min_shapes, profile_max_shapes,
                                profile_opt_shapes) :
          /\ ret' = r.ret
          /\ oob' = r.oob
          /\ parsed' = r.parsed
          /\ decoded' = r.shape_ranges
          /\ profile_max_shapes' = r.max
          /\ profile_opt_shapes' = r.opt
    /\ observed' = file
    /\ pc' = "CompareProfiles"
    /\ UNCHANGED <<util, file, shape_ranges, profile_min_shapes, writer>>

\* the stored triple of every profile in the comparison runs
StoredTriple == <<1, MaxExtent, 1>>

AscendingDims == [i \in 1..(MaxDim + 1) |-> i - 1]

\* stored sets of the comparison runs: well-formed, every triple StoredTriple
CompareStored ==
    {x \in ShapeProfileSets :
        \A t \in DOMAIN x : \A d \in DOMAIN x[t] :
            \A i \in 1..Len(x[t][d]) : x[t][d][i] = StoredTriple}

\* the (min, max, opt) vectors of one requested profile; where all three have
\* an entry, min <= opt <= max
ProfileTriples(vectors) ==
    {p \in [1..3 -> vectors] :
        \A d \in 1..MaxRank :
            /\ (d <= Len(p[1]) /\ d <= Len(p[3])) => p[1][d] <= p[3][d]
            /\ (d <= Len(p[3]) /\ d <= Len(p[2])) => p[3][d] <= p[2][d]
            /\ (d <= Len(p[1]) /\ d <= Len(p[2])) => p[1][d] <= p[2][d]}

\* requests name at most as many tensors as a file holds
KeySets == {K \in SUBSET RequestNames : Cardinality(K) <= Cardinality(Names)}

\* well-formed requests, tensor name -> profiles -> (min, max, opt): either
\* one profile in all with vectors of any rank, or up to MaxProfiles + 1
\* profiles in all with vectors of full rank
Requests ==
    UNION {{q \in [K -> SeqsUpTo(ProfileTriples(ShapeVectors), 1)] :
               TotalProfiles(q) <= 1}
             \cup {q \in [K -> SeqsUpTo(ProfileTriples(FullShapeVectors), MaxProfiles)] :
                      TotalProfiles(q) <= MaxProfiles + 1} : K \in KeySets}

\* the min (k = 1), max (k = 2) or opt (k = 3) map of a request
Part(q, k) == [t \in DOMAIN q |-> [i \in 1..Len(q[t]) |-> q[t][i][k]]]

InitCompare ==
    /\ IdleBut({"profiles"})
    /\ file \in {NoFile} \cup {WholeFile(BuildProfileV2(x, AscendingDims)) : x \in CompareStored}
    /\ \E q \in Requests :
          /\ profile_min_shapes = Part(q, 1)
          /\ profile_max_shapes = Part(q, 2)
          /\ profile_opt_shapes = Part(q, 3)
    /\ IdleCodec
    /\ NothingRun

NextCompare == DoCompareProfiles

SpecCompare == InitCompare /\ [][NextCompare]_vars

\* ------------------------------------------------------- writer and reader
\* One process in SerializeProfileV2 and one in CompareProfiles on the same
\* file_name; no lock is taken by either.
\* line 181: the ofstream constructor creates the file or cuts it to no bytes;
\* the buffer was finished before (lines 159-178)
WriterOpen ==
    /\ writer = "idle"
    /\ \E dim_order \in DimOrders :
          file' = [exists |-> TRUE, root |-> BuildProfileV2(shape_ranges, dim_order),
                   len |-> 0]
    /\ writer' = "open"
    /\ UNCHANGED <<util, shape_ranges, decoded, requested, ret, oob, parsed, observed, pc>>

\* line 184: the stream hands the buffer to the file in whole blocks of
\* WriteBlock bytes and a last, shorter one; some more of them arrive
WriterWrite ==
    /\ writer = "open"
    /\ \E n \in (file.len + 1)..FlexSize(file.root) :
          /\ (n % WriteBlock = 0 \/ n = FlexSize(file.root))
          /\ file' = [file EXCEPT !.len = n]
    /\ UNCHANGED <<util, shape_ranges, decoded, requested, ret, oob, parsed, observed,
                   writer, pc>>

\* line 185: all bytes are written
WriterClose ==
    /\ writer = "open"
    /\ file.len = FlexSize(file.root)
    /\ writer' = "closed"
    /\ UNCHANGED <<util, file, shape_ranges, decoded, requested, ret, oob, parsed,
                   observed, pc>>

\* the writing process dies between lines 181 and 185
WriterCrash ==
    /\ writer = "open"
    /\ writer' = "crashed"
    /\ UNCHANGED <<util, file, shape_ranges, decoded, requested, ret, oob, parsed,
                   observed, pc>>

\* lines 285-289: the reader opens the file, or returns true when there is none
ReaderOpen ==
    /\ pc = "init"
    /\ IF file.exists
       THEN /\ pc' = "opened"
            /\ UNCHANGED <<decoded, requested, ret, oob, parsed, observed>>
       ELSE /\ \E r \in CompareProfiles(file, profile_min_shapes, profile_max_shapes,
                                       profile_opt_shapes) :
                  /\ ret' = r.ret
                  /\ oob' = r.oob
                  /\ parsed' = r.parsed
                  /\ decoded' = r.shape_ranges
            /\ observed' = file
            /\ pc' = "CompareProfiles"
            /\ UNCHANGED requested
    /\ UNCHANGED <<util, file, shape_ranges, writer>>

\* lines 291-368: the reader reads the bytes the file holds now and compares
ReaderLoad ==
    /\ pc = "opened"
    /\ \E r \in CompareOpened(file, profile_min_shapes, profile_max_shapes,
                             profile_opt_shapes) :
          /\ ret' = r.ret
          /\ oob' = r.oob
          /\ parsed' = r.parsed
          /\ decoded' = r.shape_ranges
          /\ profile_max_shapes' = r.max
          /\ profile_opt_shapes' = r.opt
    /\ observed' = file
    /\ pc' = "CompareProfiles"
    /\ UNCHANGED <<util, file, shape_ranges, profile_min_shapes, writer>>

\* the sets the writer stores: one profile per dimension
RaceStored ==
    {x \in CompareStored :
        \A t \in DOMAIN x : \A d \in DOMAIN x[t] : Len(x[t][d]) = 1}

\* the requests of the reader: the tensors of a file, one profile in all
RaceRequests ==
    UNION {{q \in [K -> SeqsUpTo(ProfileTriples(FullShapeVectors), 1)] :
               TotalProfiles(q) <= 1} : K \in SUBSET Names}

InitRace ==
    /\ IdleBut({"profiles"})
    /\ file = NoFile
    /\ shape_ranges \in RaceStored
    /\ decoded = Empty
    /\ \E q \in RaceRequests :
          /\ profile_min_shapes = Part(q, 1)
          /\ profile_max_shapes = Part(q, 2)
          /\ profile_opt_shapes = Part(q, 3)
    /\ NothingRun

NextRace ==
    \/ WriterOpen
    \/ WriterWrite
    \/ WriterClose
    \/ WriterCrash
    \/ ReaderOpen
    \/ ReaderLoad

SpecRace == InitRace /\ [][NextRace]_vars

\* ------------------------------------------------------- engine ids
\* at most MaxCalls calls of TRTGenerateId in a run
MaxCalls == 2
\* at most MaxNodes nodes and MaxInputs inputs in a graph
MaxNodes == 2
MaxInputs == 2

\* the variables of the profile codec and of CompareProfiles, pc left out
profileVars == <<file, shape_ranges, decoded, requested, ret, oob, parsed,
                 observed, writer>>

\* a GraphViewer: its graph, the inputs, the nodes by index and the indices
\* in topological order.  The graph is a model's main graph, with or without
\* a file name, or the body of a control-flow node inside one, one or two
\* levels down; an optional output that is not there has exists = FALSE
GraphViewers ==
    LET Path(d, f) == [directory |-> d, filename |-> f]
        MainGraphs ==
            {[is_subgraph |-> FALSE, model_path |-> p, parent_graph |-> Empty] :
                p \in {Path("", ""), Path("/x", "m"), Path("/y", "m"), Path("/x", "nn")}}
        Subgraph(g) == [is_subgraph |-> TRUE, model_path |-> Path("/x", "s"), parent_graph |-> g]
        Graphs ==
            MainGraphs \cup {Subgraph(g) : g \in MainGraphs}
                       \cup {Subgraph(Subgraph(g)) :
                               g \in {m \in MainGraphs : m.model_path.filename = "m"}}
        NodeArg(n) == [name |-> n, exists |-> TRUE]
        AbsentArg == [name |-> "", exists |-> FALSE]
        InputLists ==
            {s \in SeqsUpTo({NodeArg("a"), NodeArg("b")}, MaxInputs) :
                Len(s) # 1 /\ \A i, j \in DOMAIN s : i # j => s[i] # s[j]}
        OutputLists == {<<NodeArg("y")>>, <<AbsentArg, NodeArg("z")>>}
    IN  UNION {{[graph |-> g, inputs |-> i, nodes |-> n, node_index |-> o] :
                   g \in Graphs, i \in InputLists, o \in Orders(DOMAIN n)} :
                 n \in SeqsUpTo(OutputLists, MaxNodes)}

TrtVersions == {"10.9", "10.13"}

\* the platform and version macros a build can define: CUDA_VERSION and
\* NV_TENSORRT_MAJOR come with the headers of lines 13-14, ORT_VERSION with
\* the compiler options
Builds ==
    {[os |-> "linux", ort_version |-> TRUE, cuda_version |-> TRUE, tensorrt_version |-> TRUE],
     [os |-> "win32", ort_version |-> TRUE, cuda_version |-> TRUE, tensorrt_version |-> TRUE],
     [os |-> "linux", ort_version |-> FALSE, cuda_version |-> TRUE, tensorrt_version |-> TRUE]}

\* TRTGenerateId(graph_viewer, trt_version, cuda_version), lines 445-519; the
\* id is hash[0] | (uint64_t(hash[1]) << 32), the pair of the two words
TRTGenerateId ==
    /\ Len(calls) < MaxCalls
    /\ hash' = HashAll(StartHash, Tokens(graph_viewer, build, trt_version, cuda_version))
    /\ calls' = Append(calls, [graph_viewer |-> graph_viewer,
                               trt_version |-> trt_version,
                               cuda_version |-> cuda_version,
                               model_hash |-> <<hash'[1], hash'[2]>>])
    /\ pc' = "TRTGenerateId"
    /\ UNCHANGED <<qnnVars, graph_viewer, trt_version, cuda_version, build, profileVars, dirVars, timingVars, suffixVars, parseVars>>

\* between two calls the session is set up anew: another model, the model
\* moved, or another TensorRT
LoadModel ==
    /\ pc = "TRTGenerateId"
    /\ Len(calls) < MaxCalls
    /\ \E gv \in GraphViewers, trt \in TrtVersions :
          /\ \/ gv = graph_viewer /\ trt # trt_version
             \/ /\ trt = trt_version
                /\ Cardinality({f \in DOMAIN gv : gv[f] # graph_viewer[f]}) = 1
          /\ graph_viewer' = gv
          /\ trt_version' = trt
    /\ pc' = "LoadModel"
    /\ UNCHANGED <<qnnVars, cuda_version, build, hash, calls, profileVars, dirVars, timingVars, suffixVars, parseVars>>

InitId ==
    /\ IdleBut({"id"})
    /\ graph_viewer \in GraphViewers
    /\ trt_version \in TrtVersions
    /\ cuda_version = "12.9"
    /\ build \in Builds
    /\ hash = <<<<>>, <<>>, <<>>, <<>>>>
    /\ calls = <<>>

NextId == TRTGenerateId \/ LoadModel

SpecId == InitId /\ [][NextId]_vars

\* ------------------------------------------------------- model names
\* model file names have at most MaxNameLength characters
MaxNameLength == 502

\* the ids of graphs without inputs and nodes whose model has no file name or
\* one of 1 to MaxNameLength characters, an "a" and then "m"s
InitName ==
    /\ IdleBut({"id"})
    /\ \E model_name \in {""} \cup {"a" \o Repeated("m", n - 1) : n \in 1..MaxNameLength} :
          graph_viewer = [graph |-> [is_subgraph |-> FALSE,
                                     model_path |-> [directory |-> "/x", filename |-> model_name],
                                     parent_graph |-> Empty],
                          inputs |-> <<>>, nodes |-> <<>>, node_index |-> <<>>]
    /\ trt_version = "10.9"
    /\ cuda_version = "12.9"
    /\ build \in Builds
    /\ hash = <<<<>>, <<>>, <<>>, <<>>>>
    /\ calls = <<>>

SpecName == InitName /\ [][TRTGenerateId]_vars

\* ------------------------------------------------------- directory calls
\* at most MaxEntries entries in the cache directory
MaxEntries == 3

\* file names: a.e, b.e, a.p, .e, a, a.e.p, a.
FileNames ==
    {<<"a", ".", "e">>, <<"b", ".", "e">>, <<"a", ".", "p">>, <<".", "e">>,
     <<"a">>, <<"a", ".", "e", ".", "p">>, <<"a", ".">>}

\* the cache path names nothing, a file or a directory; an entry is a file,
\* an empty directory or a directory holding x.e
CacheDirs ==
    {Missing, RegularFile} \cup
    {Directory(e) :
        e \in UNION {[S -> {RegularFile, Directory(Empty),
                            Directory(<<"x", ".", "e">> :> RegularFile)}] :
                        S \in {T \in SUBSET FileNames : Cardinality(T) <= MaxEntries}}}

\* GetCachesByType(root, file_extension) with root = cache_path
DoGetCachesByType ==
    /\ pc = "init"
    /\ \E r \in GetCachesByType(cache_dir, cache_path, file_extension) :
          /\ ret' = r.ret
          /\ cache_files' = r.cache_files
    /\ dir_before' = cache_dir
    /\ pc' = "GetCachesByType"
    /\ UNCHANGED <<qnnVars, cache_path, cache_dir, file_extension, idVars, timingVars, suffixVars, parseVars,
                   file, shape_ranges, decoded, requested, oob, parsed, observed, writer>>

\* IsCacheExistedByType(root, file_extension) with root = cache_path
DoIsCacheExistedByType ==
    /\ pc = "init"
    /\ \E r \in IsCacheExistedByType(cache_dir, cache_path, file_extension) :
          /\ ret' = r.ret
          /\ cache_files' = r.cache_files
    /\ dir_before' = cache_dir
    /\ pc' = "IsCacheExistedByType"
    /\ UNCHANGED <<qnnVars, cache_path, cache_dir, file_extension, idVars, timingVars, suffixVars, parseVars,
                   file, shape_ranges, decoded, requested, oob, parsed, observed, writer>>

\* RemoveCachesByType(root, file_extension) with root = cache_path
DoRemoveCachesByType ==
    /\ pc = "init"
    /\ \E r \in RemoveCachesByType(cache_dir, cache_path, file_extension) :
          /\ ret' = r.ret
          /\ cache_dir' = r.dir
    /\ dir_before' = cache_dir
    /\ pc' = "RemoveCachesByType"
    /\ UNCHANGED <<qnnVars, cache_path, file_extension, cache_files, idVars, timingVars, suffixVars, parseVars,
                   file, shape_ranges, decoded, requested, oob, parsed, observed, writer>>

InitDir ==
    /\ IdleBut({"dir"})
    /\ cache_path \in {<<"c">>, <<"c", "/">>}
    /\ cache_dir \in CacheDirs
    /\ dir_before = Missing
    /\ file_extension \in {<<".", "e">>, <<".", "p">>, <<>>}
    /\ cache_files = <<>>

NextDir == DoGetCachesByType \/ DoIsCacheExistedByType \/ DoRemoveCachesByType

SpecDir == InitDir /\ [][NextDir]_vars

\* ------------------------------------------------------- timing caches
\* compute capabilities as GetComputeCapacity prints them: 75, 86, 89, 120
ComputeCaps == {<<"7", "5">>, <<"8", "6">>, <<"8", "9">>, <<"1", "2", "0">>}

\* the caller saves the timing data of the GPU with compute_cap at the path
\* GetTimingCachePath gives it
SaveTimingCache ==
    /\ \E compute_cap \in ComputeCaps :
          timing_caches' = Put(timing_caches,
                               GetTimingCachePath(cache_path, compute_cap), compute_cap)
    /\ pc' = "SaveTimingCache"
    /\ UNCHANGED <<qnnVars, timing_lookup, cache_path, cache_dir, dir_before, file_extension,
                   cache_files, idVars, suffixVars, parseVars, profileVars>>

\* the caller looks for the timing data of the GPU with compute_cap
LoadTimingCache ==
    /\ \E compute_cap \in ComputeCaps :
          LET path == GetTimingCachePath(cache_path, compute_cap)
          IN  timing_lookup' =
                  [compute_cap |-> compute_cap, path |-> path,
                   found |-> IF path \in DOMAIN timing_caches
                             THEN <<timing_caches[path]>> ELSE <<>>]
    /\ pc' = "LoadTimingCache"
    /\ UNCHANGED <<qnnVars, timing_caches, cache_path, cache_dir, dir_before, file_extension,
                   cache_files, idVars, suffixVars, parseVars, profileVars>>

InitTiming ==
    /\ IdleBut({"dir"})
    /\ cache_path \in {<<>>, <<"c">>, <<"c", "/">>}
    /\ cache_dir = Directory(Empty)
    /\ dir_before = Missing
    /\ file_extension = <<>>
    /\ cache_files = <<>>

NextTiming == SaveTimingCache \/ LoadTimingCache

SpecTiming == InitTiming /\ [][NextTiming]_vars

\* ------------------------------------------------------- cache suffix
\* node names have at most MaxNodeName characters
MaxNodeName == 5

\* the characters of node names: the delimiter, a letter, a digit
NodeNames == SeqsUpTo({"_", "h", "1"}, MaxNodeName)

\* GetCacheSuffix(fused_node_name, trt_node_name_with_precision)
DoGetCacheSuffix ==
    /\ pc = "init"
    /\ LET r == GetCacheSuffix(fused_node_name, trt_node_name_with_precision)
       IN  ret' = r.ret /\ suffix' = r.suffix
    /\ pc' = "GetCacheSuffix"
    /\ UNCHANGED <<qnnVars, fused_node_name, trt_node_name_with_precision, idVars, dirVars,
                   timingVars, parseVars, file, shape_ranges, decoded, requested, oob, parsed,
                   observed, writer>>

InitSuffix ==
    /\ IdleBut({"suffix"})
    /\ fused_node_name \in NodeNames
    /\ trt_node_name_with_precision \in {n \in NodeNames : Len(n) < MaxNodeName}
    /\ suffix = <<>>

NextSuffix == DoGetCacheSuffix

SpecSuffix == InitSuffix /\ [][NextSuffix]_vars

\* ------------------------------------------------------- profile shape options
\* at most MaxPairs name:shape entries in a well-formed option string
MaxPairs == 3
\* at most MaxString characters in any other option string
MaxString == 5

\* decimal digits of n, as std::to_string writes them
RECURSIVE ToChars(_)
ToChars(n) ==
    IF n < 10 THEN <<Digits[n + 1]>> ELSE ToChars(n \div 10) \o <<Digits[(n % 10) + 1]>>

\* the entries of well-formed strings: a name and one or two extents
ShapeEntries ==
    {[name |-> n, shape |-> s] :
        n \in {<<"a">>, <<"i", "d">>}, s \in SeqsUpTo({1, 12}, 2) \ {<<>>}}

\* the option string of the entries: name:extent x extent, separated by commas
RenderEntries(entries) ==
    LET RenderEntry(e) ==
            e.name \o <<":">> \o join([i \in DOMAIN e.shape |-> ToChars(e.shape[i])], <<"x">>)
    IN  join([i \in DOMAIN entries |-> RenderEntry(entries[i])], <<",">>)

\* ParseProfileShapes(profile_shapes_string, profile_shapes), the map being
\* parsed_shapes
DoParseProfileShapes ==
    /\ pc = "init"
    /\ LET r == ParseProfileShapes(profile_shapes_string, parsed_shapes)
       IN  ret' = r.ret /\ parsed_shapes' = r.profile_shapes
    /\ pc' = "ParseProfileShapes"
    /\ UNCHANGED <<qnnVars, profile_shapes_string, option_entries, idVars, dirVars, timingVars,
                   suffixVars,
                   file, shape_ranges, decoded, requested, oob, parsed, observed, writer>>

InitParse ==
    /\ IdleBut({"parse"})
    /\ \/ /\ option_entries \in SeqsUpTo(ShapeEntries, MaxPairs)
          /\ profile_shapes_string = RenderEntries(option_entries)
       \/ /\ option_entries = <<>>
          /\ profile_shapes_string \in SeqsUpTo({"a", ":", "x", ",", "1"}, MaxString)
    /\ parsed_shapes = Empty

NextParse == DoParseProfileShapes

SpecParse == InitParse /\ [][NextParse]_vars

\* ------------------------------------------------------- QnnModel::ExecuteGraph
\* MaxThreads threads call ExecuteGraph on one QnnModel, each at most MaxRuns
\* times
MaxThreads == 2
MaxRuns == 2

\* qnn_model.cc lines 225-292: the call checks the counts and binds the
\* tensors; it returns an error from there, or goes on to the block of line
\* 293 with execute_status = QNN_GRAPH_NO_ERROR
ExecuteGraph(t) ==
    /\ thread_pc[t] = "idle"
    /\ runs[t] < MaxRuns
    /\ runs' = [runs EXCEPT ![t] = @ + 1]
    /\ execute_status' = [execute_status EXCEPT ![t] = "QNN_GRAPH_NO_ERROR"]
    /\ \/ thread_pc' = [thread_pc EXCEPT ![t] = "lock"] /\ UNCHANGED status
       \/ status' = [status EXCEPT ![t] = "FAIL"] /\ UNCHANGED thread_pc
    /\ UNCHANGED <<graph_exec_mutex_, profileVars, pc, idVars, dirVars, timingVars, suffixVars,
                   parseVars>>

\* line 297: the constructor of std::lock_guard returns once it owns the mutex
Lock(t) ==
    /\ thread_pc[t] = "lock"
    /\ graph_exec_mutex_ = 0
    /\ graph_exec_mutex_' = t
    /\ thread_pc' = [thread_pc EXCEPT ![t] = "graphExecute"]
    /\ UNCHANGED <<execute_status, status, runs, profileVars, pc, idVars, dirVars, timingVars,
                   suffixVars, parseVars>>

\* lines 299-307: the backend runs the graph and answers with an error handle
graphExecute(t) ==
    /\ thread_pc[t] = "graphExecute"
    /\ \E handle \in {"QNN_GRAPH_NO_ERROR", "QNN_COMMON_ERROR_SYSTEM_COMMUNICATION",
                      "QNN_GRAPH_ERROR"} :
          execute_status' = [execute_status EXCEPT ![t] = handle]
    /\ thread_pc' = [thread_pc EXCEPT ![t] = "ExtractBackendProfilingInfo"]
    /\ UNCHANGED <<graph_exec_mutex_, status, runs, profileVars, pc, idVars, dirVars,
                   timingVars, suffixVars, parseVars>>

\* line 312: ORT_RETURN_IF_ERROR returns the Status of the extraction when it
\* is an error, else the block goes on to its end
ExtractBackendProfilingInfo(t) ==
    /\ thread_pc[t] = "ExtractBackendProfilingInfo"
    /\ \E ok \in BOOLEAN :
          thread_pc' = [thread_pc EXCEPT ![t] = IF ok THEN "end of block" ELSE "return"]
    /\ UNCHANGED <<graph_exec_mutex_, execute_status, status, runs, profileVars, pc, idVars,
                   dirVars, timingVars, suffixVars, parseVars>>

\* a mutex unlocked by hand at line 313 and not on the return of line 312
Unlock_AtEndOnly(t) ==
    /\ thread_pc[t] \in {"end of block", "return"}
    /\ graph_exec_mutex_' = IF thread_pc[t] = "return" THEN graph_exec_mutex_ ELSE 0
    /\ thread_pc' = [thread_pc EXCEPT ![t] = IF @ = "return" THEN "idle" ELSE "status"]
    /\ status' = [status EXCEPT ![t] = IF thread_pc[t] = "return" THEN "profiling error" ELSE @]
    /\ UNCHANGED <<execute_status, runs, profileVars, pc, idVars, dirVars, timingVars,
                   suffixVars, parseVars>>

\* lines 312 and 313: the destructor of the lock_guard unlocks the mutex when
\* the block is left, at its end and on the return out of it alike
Unlock(t) ==
    /\ thread_pc[t] \in {"end of block", "return"}
    /\ graph_exec_mutex_' = 0
    /\ thread_pc' = [thread_pc EXCEPT ![t] = IF @ = "return" THEN "idle" ELSE "status"]
    /\ status' = [status EXCEPT ![t] = IF thread_pc[t] = "return" THEN "profiling error" ELSE @]
    /\ UNCHANGED <<execute_status, runs, profileVars, pc, idVars, dirVars, timingVars,
                   suffixVars, parseVars>>

\* lines 315-324: the Status of the call follows from execute_status
ReturnStatus(t) ==
    /\ thread_pc[t] = "status"
    /\ status' = [status EXCEPT ![t] =
                     CASE execute_status[t] = "QNN_COMMON_ERROR_SYSTEM_COMMUNICATION" -> "ENGINE_ERROR"
                       [] execute_status[t] # "QNN_GRAPH_NO_ERROR" -> "FAIL"
                       [] OTHER -> "OK"]
    /\ thread_pc' = [thread_pc EXCEPT ![t] = "idle"]
    /\ UNCHANGED <<graph_exec_mutex_, execute_status, runs, profileVars, pc, idVars, dirVars,
                   timingVars, suffixVars, parseVars>>

InitQnn ==
    /\ IdleBut({"qnn"})
    /\ graph_exec_mutex_ = 0
    /\ thread_pc = [t \in 1..MaxThreads |-> "idle"]
    /\ execute_status = [t \in 1..MaxThreads |-> "QNN_GRAPH_NO_ERROR"]
    /\ status = [t \in 1..MaxThreads |-> "none"]
    /\ runs = [t \in 1..MaxThreads |-> 0]

NextQnn ==
    \E t \in 1..MaxThreads :
        \/ ExecuteGraph(t)
        \/ Lock(t)
        \/ graphExecute(t)
        \/ ExtractBackendProfilingInfo(t)
        \/ Unlock(t)
        \/ ReturnStatus(t)

\* a thread that can take the mutex, or is inside the call, goes on: the
\* backend calls return and the scheduler runs every thread
SpecQnn ==
    /\ InitQnn
    /\ [][NextQnn]_vars
    /\ \A t \in 1..MaxThreads :
          /\ WF_vars(Lock(t))
          /\ WF_vars(graphExecute(t) \/ ExtractBackendProfilingInfo(t) \/ Unlock(t)
                       \/ ReturnStatus(t))

\* ------------------------------------------------------- codec properties
\* C1: a well-formed set written by SerializeProfileV2 and read back by
\* DeserializeProfileV2 is returned unchanged: same tensors, same dimensions,
\* same triples in the same profile order
RoundTripV2 ==
    (pc = "DeserializeProfileV2" /\ shape_ranges # Empty /\ WellFormed(shape_ranges))
        => decoded = shape_ranges

\* the flat sequence of some tensor is no whole number of groups of n values,
\* or the root is no map
Malformed(root, n) ==
    \/ root.type # "map"
    \/ \E t \in DOMAIN root.map : Len(AsTypedVector(root.map[t])) % n # 0

\* C9: no decode of a malformed buffer returns a profile set: a flat sequence
\* whose length is no multiple of 4 (DeserializeProfileV2) or of 3
\* (DeserializeProfile), or a root that is no map, ends in an error
MalformedNeverDecoded ==
    /\ ~(pc = "DeserializeProfileV2" /\ Malformed(file.root, 4))
    /\ ~(pc = "DeserializeProfile" /\ Malformed(file.root, 3))

\* two tensors, two dimensions, two different profiles each, dimension 1
\* written before dimension 0, read back
WitnessRoundTripV2 ==
    /\ pc = "DeserializeProfileV2"
    /\ DOMAIN shape_ranges = Names
    /\ WellFormed(shape_ranges)
    /\ DOMAIN shape_ranges["a"] = Dims
    /\ Len(shape_ranges["a"][0]) = 2
    /\ shape_ranges["a"][0][1] # shape_ranges["a"][0][2]
    /\ file.root.map["a"].elems[1] = 1
    /\ decoded = shape_ranges

\* ------------------------------------------------------- CompareProfiles properties
\* CompareProfiles has returned (or died) on a file that was there and whole
ComparedWholeFile ==
    /\ pc = "CompareProfiles"
    /\ file.exists
    /\ file.len = FlexSize(file.root)

\* the set the file stores
Stored == ParseProfileV2(file.root)

\* the requested profile count of tensor t
RequestedCount(t) == Len(profile_min_shapes[t])

\* some stored (tensor, dimension) holds another number of profiles than the
\* tensor's requested count
CountsDiffer ==
    \E t \in DOMAIN Stored \cap DOMAIN profile_min_shapes :
        \E d \in DOMAIN Stored[t] : Len(Stored[t][d]) # RequestedCount(t)

\* the numbers of tensor names differ, or a requested name is not stored
NamesDiffer ==
    \/ Cardinality(DOMAIN Stored) # Cardinality(DOMAIN profile_min_shapes)
    \/ \E t \in DOMAIN profile_min_shapes : t \notin DOMAIN Stored

\* a stored dimension index is no index of the requested min vector of its
\* tensor and profile
DimOutOfRange ==
    \E t \in DOMAIN Stored \cap DOMAIN profile_min_shapes :
        \E d \in DOMAIN Stored[t] :
            \E i \in 1..Len(Stored[t][d]) :
                /\ i <= RequestedCount(t)
                /\ d >= Len(profile_min_shapes[t][i])

\* requested value k (1 min, 2 max, 3 opt) at [t][i][d] is there and equals v
RequestedIs(shapes, t, i, d, v) ==
    /\ t \in DOMAIN shapes
    /\ i <= Len(shapes[t])
    /\ d + 1 <= Len(shapes[t][i])
    /\ shapes[t][i][d + 1] = v

\* the stored and the requested set match
Match ==
    /\ Cardinality(DOMAIN Stored) = Cardinality(DOMAIN profile_min_shapes)
    /\ DOMAIN Stored \subseteq DOMAIN profile_min_shapes
    /\ ~CountsDiffer
    /\ \A t \in DOMAIN Stored : \A d \in DOMAIN Stored[t] :
          \A i \in 1..Len(Stored[t][d]) :
             /\ RequestedIs(profile_min_shapes, t, i, d, Stored[t][d][i][1])
             /\ RequestedIs(profile_max_shapes, t, i, d, Stored[t][d][i][2])
             /\ RequestedIs(profile_opt_shapes, t, i, d, Stored[t][d][i][3])

\* C2: on an existing, decodable file CompareProfiles returns false exactly
\* when the stored and the requested set match (same number of names, every
\* stored name requested, equal profile counts, every stored triple equal to
\* the requested min, max and opt values)
FalseExactlyOnMatch ==
    ComparedWholeFile => (ret = "false" <=> Match)

\* C3: CompareProfiles returns true whenever some stored (tensor, dimension)
\* holds a number of profiles other than the length of the tensor's requested
\* min-shapes sequence, also when requested tensors differ in that length
TrueWhenCountsDiffer ==
    (ComparedWholeFile /\ CountsDiffer) => ret = "true"

\* C4: when the file cannot be opened CompareProfiles returns true, for every
\* request, and decodes nothing
TrueWhenNoFile ==
    (pc = "CompareProfiles" /\ ~file.exists) =>
        (ret = "true" /\ ~parsed /\ ~oob /\ decoded = Empty)

\* CompareProfiles returned for a request of two tensors with no file around
WitnessTrueWhenNoFile ==
    /\ pc = "CompareProfiles"
    /\ ~file.exists
    /\ DOMAIN profile_min_shapes = Names
    /\ Len(profile_min_shapes["a"]) = MaxProfiles
    /\ ret = "true"
    /\ ~parsed

\* C5: CompareProfiles returns true when the stored and the requested set
\* differ in their number of tensor names, and when a requested name is not
\* stored
TrueWhenNamesDiffer ==
    (ComparedWholeFile /\ NamesDiffer) => ret = "true"

\* C6: CompareProfiles returns true, and reads past the end of no vector,
\* whenever a stored dimension index is no index of the requested min vector
\* of its tensor and profile, the empty vector included
TrueWhenDimOutOfRange ==
    (ComparedWholeFile /\ DimOutOfRange) => (ret = "true" /\ ~oob)

\* C25: for a request that ValidateProfileShapes accepts and a file that
\* decodes, CompareProfiles reads no requested vector outside its bounds
\* (tensor present, profile below the tensor's count, dimension below the
\* length of the shape vector, in the min, the max and the opt map alike), and
\* it inserts no key: the max and opt maps keep the names of the min map
ValidatedNeverOutOfRange ==
    (/\ ComparedWholeFile
     /\ ValidateProfileShapes(profile_min_shapes, profile_max_shapes, profile_opt_shapes))
        => /\ ~oob
           /\ DOMAIN profile_max_shapes = DOMAIN profile_min_shapes
           /\ DOMAIN profile_opt_shapes = DOMAIN profile_min_shapes

\* ------------------------------------------------------- ValidateProfileShapes properties
\* C7: ValidateProfileShapes returns true for every well-formed request: all
\* three maps empty, or one key set and per key one profile count
ValidateAcceptsWellFormed ==
    (pc = "ValidateProfileShapes"
       /\ WellFormedRequest(profile_min_shapes, profile_max_shapes, profile_opt_shapes))
        => ret = "true"

\* a well-formed request of two tensors with different profile counts, accepted
WitnessValidateAcceptsWellFormed ==
    /\ pc = "ValidateProfileShapes"
    /\ WellFormedRequest(profile_min_shapes, profile_max_shapes, profile_opt_shapes)
    /\ DOMAIN profile_min_shapes = Names
    /\ Len(profile_min_shapes["a"]) = MaxProfiles
    /\ Len(profile_min_shapes["b"]) = 1
    /\ profile_min_shapes # profile_max_shapes
    /\ ret = "true"

\* C8: ValidateProfileShapes returns false for every request that is not
\* well-formed: key sets not all equal, or a key with different profile counts
ValidateRejectsIllFormed ==
    (pc = "ValidateProfileShapes"
       /\ ~WellFormedRequest(profile_min_shapes, profile_max_shapes, profile_opt_shapes))
        => ret = "false"

\* ------------------------------------------------------- writer/reader property
\* the reader read a file that held a strict prefix of the writer's buffer
ObservedPrefix ==
    /\ pc = "CompareProfiles"
    /\ observed.exists
    /\ observed.len < FlexSize(observed.root)

\* C10: a reader that finds a strict prefix of the encoded buffer in the file,
\* the empty file included, returns true; it neither dies nor reads outside a
\* buffer nor returns false
PrefixMeansRebuild ==
    ObservedPrefix => (ret = "true" /\ ~oob)

\* ------------------------------------------------------- legacy decode properties
\* the groups of tensor t in the file, as DeserializeProfile counts them
GroupCount(t) == Len(AsTypedVector(file.root.map[t])) \div 3
GroupAt(t, j) ==
    LET v == AsTypedVector(file.root.map[t])
    IN  <<v[3 * j - 2], v[3 * j - 1], v[3 * j]>>

\* C11: DeserializeProfile of a file in the legacy format (whole groups of
\* (dim, min, max)) returns every tensor of the file and, for each, exactly
\* the dimension indices that occur in its groups, each with one (min, max)
\* pair and no opt value; a dimension written more than once keeps one pair,
\* that of its last group.  A set written by SerializeProfile is returned
\* unchanged.
LegacyDecode ==
    pc = "DeserializeProfile" =>
        /\ DOMAIN decoded = DOMAIN file.root.map
        /\ \A t \in DOMAIN decoded :
              /\ DOMAIN decoded[t] = {GroupAt(t, j)[1] : j \in 1..GroupCount(t)}
              /\ \A d \in DOMAIN decoded[t] :
                    LET last == CHOOSE j \in 1..GroupCount(t) :
                                   /\ GroupAt(t, j)[1] = d
                                   /\ \A k \in (j + 1)..GroupCount(t) : GroupAt(t, k)[1] # d
                    IN  decoded[t][d] = <<GroupAt(t, last)[2], GroupAt(t, last)[3]>>
        /\ shape_ranges # Empty => decoded = shape_ranges

\* tensor a of a legacy file holds dimension 0 twice with different pairs,
\* tensor b one group, and the decoded set has the second pair for a
WitnessLegacyDecode ==
    /\ pc = "DeserializeProfile"
    /\ shape_ranges = Empty
    /\ DOMAIN file.root.map = Names
    /\ GroupCount("a") = 2
    /\ GroupAt("a", 1) = <<0, 1, 1>>
    /\ GroupAt("a", 2) = <<0, 2, 2>>
    /\ GroupCount("b") = 1
    /\ decoded["a"] = (0 :> <<2, 2>>)

\* ------------------------------------------------------- engine id properties
SameArguments(c, d) ==
    /\ c.graph_viewer = d.graph_viewer
    /\ c.trt_version = d.trt_version
    /\ c.cuda_version = d.cuda_version

TokensOf(c) == Tokens(c.graph_viewer, build, c.trt_version, c.cuda_version)

\* C12: two TRTGenerateId calls on the same graph with the same version
\* strings return the same id, whatever was computed between them; and two
\* calls that feed the same tokens in the same order return the same id (no
\* state of an earlier call enters a later one)
IdDeterministic ==
    \A i, j \in DOMAIN calls :
        (SameArguments(calls[i], calls[j]) \/ TokensOf(calls[i]) = TokensOf(calls[j]))
            => calls[i].model_hash = calls[j].model_hash

\* a subgraph of a named model with two inputs and two nodes, one of them
\* with an absent output, was given an id twice
WitnessIdDeterministic ==
    /\ Len(calls) = 2
    /\ SameArguments(calls[1], calls[2])
    /\ calls[1].graph_viewer.graph.is_subgraph
    /\ Len(TokensOf(calls[1])) = 8
    /\ calls[1].model_hash = calls[2].model_hash

\* the strings that went into a digest word, first fed first: the string of
\* the word after those of its seed
RECURSIVE FedTo(_)
FedTo(word) == IF word = <<>> THEN <<>> ELSE Append(FedTo(word[2]), word[3])

\* the graph without a parent above the graph of the viewer
Ancestor(gv) ==
    CHOOSE g \in {gv.graph, gv.graph.parent_graph,
                  IF gv.graph.is_subgraph THEN gv.graph.parent_graph.parent_graph ELSE Empty} :
        g # Empty /\ ~g.is_subgraph

\* the names of the inputs as declared, then for every node in topological
\* order the names of its outputs that exist, as declared
GraphNames(gv) ==
    [i \in DOMAIN gv.inputs |-> gv.inputs[i].name]
      \o Flatten([k \in DOMAIN gv.node_index |->
                    LET present == SelectSeq(gv.nodes[gv.node_index[k]], LAMBDA a : a.exists)
                    IN  [i \in DOMAIN present |-> present[i].name]])

OsTag == IF build.os = "linux" THEN "LINUX" ELSE "WINDOWS"

\* what was fed is versions after the names of the graph, after a repetition
\* of the file name of the top-level graph when it has one
FedInOrder(versions) ==
    LET fed == FedTo(hash[1])
        name == Ancestor(graph_viewer).model_path.filename
        rest == GraphNames(graph_viewer) \o versions
    IN  IF name = "" THEN fed = rest
        ELSE /\ fed # <<>>
             /\ Tail(fed) = rest
             /\ Head(fed) = Repeated(name, Len(Head(fed)) \div Len(name))

\* C21 as stated: the OS tag and all three version strings are fed by every
\* build
FeedsSevenKinds ==
    pc = "TRTGenerateId" =>
        FedInOrder(<<OsTag, ORT_VERSION, cuda_version, trt_version>>)

\* C21: TRTGenerateId feeds, each feed seeded by the first word the previous
\* one left, in this order and nothing else: the repeated file name of the
\* top-level graph if it has one, the input names as declared, per node in
\* topological order the names of the outputs that exist, the OS tag, the
\* release string if the build defines ORT_VERSION, cuda_version, trt_version
FeedsTokensInOrder ==
    pc = "TRTGenerateId" =>
        FedInOrder(<<OsTag>> \o (IF build.ort_version THEN <<ORT_VERSION>> ELSE <<>>)
                     \o <<cuda_version, trt_version>>)

\* a subgraph of a named model, inputs a and b, the second node first in
\* topological order and one output absent: eight strings were fed
WitnessFeedsTokensInOrder ==
    /\ pc = "TRTGenerateId"
    /\ graph_viewer.graph.is_subgraph
    /\ build.ort_version
    /\ graph_viewer.node_index = <<2, 1>>
    /\ graph_viewer.nodes[2] # graph_viewer.nodes[1]
    /\ FedTo(hash[1]) = <<Repeated("m", hash_string_length), "a", "b", "z", "y",
                          "LINUX", ORT_VERSION, cuda_version, trt_version>>

\* what the build feeds after the names of the graph
VersionsFed ==
    <<OsTag>> \o (IF build.ort_version THEN <<ORT_VERSION>> ELSE <<>>)
      \o <<cuda_version, trt_version>>

\* C22: for a file name of L >= 1 characters the first string fed is the name
\* repeated k times, k * L the smallest multiple of L that is at least 500 (a
\* name of 500 or more characters once); without a file name nothing is fed
\* for this step; the loop ends for every L
NameRepeated ==
    pc = "TRTGenerateId" =>
        LET fed == FedTo(hash[1])
            name == Ancestor(graph_viewer).model_path.filename
            L == Len(name)
            others == Len(GraphNames(graph_viewer)) + Len(VersionsFed)
        IN  IF name = "" THEN Len(fed) = others
            ELSE /\ Len(fed) = others + 1
                 /\ \E k \in 1..500 :
                       /\ k * L >= 500
                       /\ (k - 1) * L < 500
                       /\ Head(fed) = Repeated(name, k)
                 /\ Len(Head(fed)) >= 500
                 /\ Len(Head(fed)) < 500 + L
                 /\ L >= 500 => Head(fed) = name

\* a name of 7 characters was fed 72 times over, 504 characters
WitnessNameRepeated ==
    /\ pc = "TRTGenerateId"
    /\ Len(graph_viewer.graph.model_path.filename) = 7
    /\ Len(Head(FedTo(hash[1]))) = 504

\* the calls c and d differ at most in where the model lies and in how deep
\* the graph is nested
SameButLocation(c, d) ==
    /\ Ancestor(c.graph_viewer).model_path.filename
         = Ancestor(d.graph_viewer).model_path.filename
    /\ c.graph_viewer.inputs = d.graph_viewer.inputs
    /\ c.graph_viewer.nodes = d.graph_viewer.nodes
    /\ c.graph_viewer.node_index = d.graph_viewer.node_index
    /\ c.trt_version = d.trt_version
    /\ c.cuda_version = d.cuda_version

\* C23: the id depends on the location of the model only through the file
\* name of the top-level graph: calls that differ only in the directory of the
\* model path return the same id, and what is fed for a subgraph is the file
\* name of the graph at the end of its parent links
IdFromFileNameOnly ==
    /\ \A i, j \in DOMAIN calls :
          SameButLocation(calls[i], calls[j]) => calls[i].model_hash = calls[j].model_hash
    /\ (pc = "TRTGenerateId" /\ graph_viewer.graph.is_subgraph) =>
          LET fed == FedTo(hash[1])
              name == Ancestor(graph_viewer).model_path.filename
          IN  IF name = "" THEN fed = GraphNames(graph_viewer) \o VersionsFed
              ELSE Head(fed) = Repeated(name, Len(Head(fed)) \div Len(name))

\* the model m in /x was given an id, then the body of a control-flow node
\* two levels down in the model m in /y, the same id
WitnessIdFromFileNameOnly ==
    /\ Len(calls) = 2
    /\ calls[1].graph_viewer.graph.model_path = [directory |-> "/x", filename |-> "m"]
    /\ calls[2].graph_viewer.graph.is_subgraph
    /\ calls[2].graph_viewer.graph.parent_graph.is_subgraph
    /\ Ancestor(calls[2].graph_viewer).model_path = [directory |-> "/y", filename |-> "m"]
    /\ calls[1].model_hash = calls[2].model_hash

\* ------------------------------------------------------- directory properties
\* the direct entries of directory d whose extension is ext
WithExtension(d, ext) == {n \in DOMAIN d.entries : extension(n) = ext}

\* C13: for a root that is a directory GetCachesByType returns the paths of
\* exactly the direct entries whose extension equals file_extension, each
\* once, and none from a subdirectory
ListsDirectEntries ==
    (pc = "GetCachesByType" /\ cache_dir.kind = "dir") =>
        /\ ret = "returned"
        /\ {cache_files[i] : i \in DOMAIN cache_files}
             = {PathAppend(cache_path, n) : n \in WithExtension(cache_dir, file_extension)}
        /\ Len(cache_files) = Cardinality(WithExtension(cache_dir, file_extension))

\* the directory holds the file a.e, the subdirectory b.e that holds x.e and
\* the file a.e.p; .e was asked for and a.e and b.e were returned
WitnessListsDirectEntries ==
    /\ pc = "GetCachesByType"
    /\ cache_dir.kind = "dir"
    /\ DOMAIN cache_dir.entries = {<<"a", ".", "e">>, <<"b", ".", "e">>,
                                   <<"a", ".", "e", ".", "p">>}
    /\ cache_dir.entries[<<"b", ".", "e">>].entries # Empty
    /\ file_extension = <<".", "e">>
    /\ cache_path = <<"c">>
    /\ cache_files = << <<"c", "/", "b", ".", "e">>, <<"c", "/", "a", ".", "e">> >>

\* C14: for a root that is missing or is no directory the three calls fail
\* silently: GetCachesByType returns the empty vector and raises no error,
\* IsCacheExistedByType returns false, RemoveCachesByType does nothing
FailsSilently ==
    (pc \in {"GetCachesByType", "IsCacheExistedByType", "RemoveCachesByType"}
        /\ dir_before.kind # "dir") =>
        /\ ret # "throw"
        /\ cache_files = <<>>
        /\ pc = "IsCacheExistedByType" => ret = "false"
        /\ cache_dir = dir_before

\* C15: after RemoveCachesByType on a directory the directory holds exactly
\* the entries it held before minus those whose extension is file_extension
\* (the others unchanged), and IsCacheExistedByType for that extension is
\* then false
RemovesExactlyByType ==
    (pc = "RemoveCachesByType" /\ dir_before.kind = "dir") =>
        /\ cache_dir.kind = "dir"
        /\ DOMAIN cache_dir.entries
             = DOMAIN dir_before.entries \ WithExtension(dir_before, file_extension)
        /\ \A n \in DOMAIN cache_dir.entries : cache_dir.entries[n] = dir_before.entries[n]
        /\ \A r \in IsCacheExistedByType(cache_dir, cache_path, file_extension) :
              r.ret = "false"

\* ------------------------------------------------------- timing cache properties
\* C16: the timing cache of a compute capability is looked up at the path
\* root/NvExecutionProvider_cache_sm<capability>.timing (the bare name when
\* root is empty), different capabilities have different paths, and a look-up
\* for one capability never finds the data written for another
TimingCachePerCapability ==
    /\ \A a, b \in ComputeCaps :
          a # b => GetTimingCachePath(cache_path, a) # GetTimingCachePath(cache_path, b)
    /\ timing_lookup # Empty =>
          /\ timing_lookup.found \in {<<>>, <<timing_lookup.compute_cap>>}
          /\ LET name == <<"N", "v", "E", "x", "e", "c", "u", "t", "i", "o", "n", "P", "r", "o", "v", "i", "d", "e", "r", "_", "c", "a", "c", "h", "e", "_", "s", "m">>
                           \o timing_lookup.compute_cap \o <<".", "t", "i", "m", "i", "n", "g">>
                 dir == IF cache_path[Len(cache_path)] = "/"
                        THEN cache_path ELSE cache_path \o <<"/">>
             IN  timing_lookup.path = IF cache_path = <<>> THEN name ELSE dir \o name

\* timing data of 86 and 89 is stored under root c, 86 is looked up and its
\* own data found
WitnessTimingCachePerCapability ==
    /\ cache_path = <<"c">>
    /\ {timing_caches[p] : p \in DOMAIN timing_caches} = {<<"8", "6">>, <<"8", "9">>}
    /\ timing_lookup # Empty
    /\ timing_lookup.compute_cap = <<"8", "6">>
    /\ timing_lookup.found = << <<"8", "6">> >>

\* ------------------------------------------------------- cache suffix properties
\* str from its first occurrence of sub onward
FromFirst(str, sub) == SubSeq(str, find(str, sub) + 1, Len(str))

\* tokens without the one at index 2, when there are more than 2
WithoutThird(tokens) ==
    [i \in 1..(IF Len(tokens) > 2 THEN Len(tokens) - 1 ELSE Len(tokens)) |->
        IF i <= 2 THEN tokens[i] ELSE tokens[i + 1]]

\* C17: GetCacheSuffix returns the empty string when fused_node_name has fewer
\* than 3 tokens between underscores; otherwise, with H its third-from-last
\* token, it returns trt_node_name_with_precision from the first occurrence of
\* H inside trt_node_name_with_precision onward, split at the underscores,
\* without the token at index 2 when there are more than 2, joined with
\* underscores
SuffixAsSpecified ==
    pc = "GetCacheSuffix" =>
        LET tokens == split(fused_node_name, "_")
            H == tokens[Len(tokens) - 2]
        IN  IF Len(tokens) < 3 THEN ret = "returned" /\ suffix = <<>>
            ELSE find(trt_node_name_with_precision, H) <= Len(trt_node_name_with_precision) =>
                    /\ ret = "returned"
                    /\ suffix = join(WithoutThird(split(FromFirst(trt_node_name_with_precision, H),
                                                        "_")), <<"_">>)

\* C24: when the third-from-last token of fused_node_name does not occur in
\* trt_node_name_with_precision, or that name is shorter than the position at
\* which the token is found, GetCacheSuffix returns the empty string and
\* takes no substring from beyond the end (no std::out_of_range)
NotFoundGivesEmpty ==
    pc = "GetCacheSuffix" =>
        LET tokens == split(fused_node_name, "_")
            H == tokens[Len(tokens) - 2]
        IN  (/\ Len(tokens) >= 3
             /\ \/ find(trt_node_name_with_precision, H) > Len(trt_node_name_with_precision)
                \/ Len(trt_node_name_with_precision) < find(fused_node_name, H))
                => (ret = "returned" /\ suffix = <<>>)

\* ------------------------------------------------------- option string properties
\* the shapes of the entries named n, in the order of the entries
ShapesOf(entries, n) ==
    LET mine == SelectSeq(entries, LAMBDA e : e.name = n)
    IN  [k \in DOMAIN mine |-> mine[k].shape]

\* C18: ParseProfileShapes of a well-formed string (entries name:extent or
\* name:extentxextent..., separated by commas) returns true and a map with
\* exactly the names of the entries; the k-th entry of a name, counted from 1
\* in the order of the string, is profile k - 1 of that name, with the extents
\* in the order written
ParsesWellFormed ==
    (pc = "ParseProfileShapes" /\ option_entries # <<>>) =>
        /\ ret = "true"
        /\ DOMAIN parsed_shapes = {option_entries[i].name : i \in DOMAIN option_entries}
        /\ \A n \in DOMAIN parsed_shapes : parsed_shapes[n] = ShapesOf(option_entries, n)

\* a:1x12,id:1,a:12 was parsed: two profiles for a, one for id
WitnessParsesWellFormed ==
    /\ pc = "ParseProfileShapes"
    /\ Len(option_entries) = 3
    /\ profile_shapes_string
         = <<"a", ":", "1", "x", "1", "2", ",", "i", "d", ":", "1", ",", "a", ":", "1", "2">>
    /\ ret = "true"
    /\ parsed_shapes = (<<"a">> :> << <<1, 12>>, <<12>> >>) @@ (<<"i", "d">> :> << <<1>> >>)

\* what stands between the delimiters of str, empty pieces and an empty last
\* piece included
RECURSIVE Fields(_, _)
Fields(str, delimiter) ==
    LET i == FirstOf(str, delimiter)
    IN  IF i = 0 THEN <<str>>
        ELSE <<SubSeq(str, 1, i - 1)>> \o Fields(SubSeq(str, i + 1, Len(str)), delimiter)

\* an entry with an empty name, an empty shape, or an extent that is no number
MalformedEntry(entry) ==
    LET fields == Fields(entry, ":")
        shape == IF Len(fields) >= 2 THEN fields[2] ELSE <<>>
        extents == Fields(shape, "x")
    IN  entry # <<>> /\
           \/ fields[1] = <<>>
           \/ shape = <<>>
           \/ \E k \in DOMAIN extents : \E j \in DOMAIN extents[k] : ~IsDigit(extents[k][j])

\* the string holds a malformed entry, or an empty entry between two commas
HasMalformedEntry(str) ==
    LET entries == Fields(str, ",")
    IN  \/ \E i \in DOMAIN entries : MalformedEntry(entries[i])
        \/ \E i \in 2..(Len(entries) - 1) : entries[i] = <<>>

\* C19: ParseProfileShapes returns false for the whole string whenever one of
\* its comma-separated entries is malformed (empty name, empty shape, an
\* extent that cannot be parsed, an empty entry between two commas); no
\* malformed entry is accepted
RejectsMalformed ==
    (pc = "ParseProfileShapes" /\ HasMalformedEntry(profile_shapes_string)) => ret = "false"

\* C20: when ParseProfileShapes returns false the map is what it was before
\* the call; the entries parsed before the malformed one are not in it
FailedParseLeavesNothing ==
    (pc = "ParseProfileShapes" /\ ret = "false") => parsed_shapes = Empty

\* ------------------------------------------------------- ExecuteGraph properties
\* thread t is between the lock of line 297 and the end of its block
InBlock(t) == thread_pc[t] \in {"graphExecute", "ExtractBackendProfilingInfo", "end of block", "return"}

\* C26: in every interleaving of ExecuteGraph calls on one model at most one
\* thread is between the start of graphExecute and the end of
\* ExtractBackendProfilingInfo; no thread outside that block holds the mutex,
\* whichever way it left, the return on a failed extraction included; and a
\* thread that waits for the mutex gets in
ExecuteGraphSerialized ==
    /\ [](\A t, u \in 1..MaxThreads : (InBlock(t) /\ InBlock(u)) => t = u)
    /\ [](\A t \in 1..MaxThreads : InBlock(t) <=> graph_exec_mutex_ = t)
    /\ \A t \in 1..MaxThreads : (thread_pc[t] = "lock") ~> InBlock(t)

\* thread 1 left its first call on a failed extraction and waits in its
\* second call while thread 2 extracts the profiling data
WitnessExecuteGraphSerialized ==
    /\ status[1] = "profiling error"
    /\ runs[1] = 2
    /\ thread_pc[1] = "lock"
    /\ thread_pc[2] = "ExtractBackendProfilingInfo"
    /\ graph_exec_mutex_ = 2

=============================================================================
